---- MODULE Spec2Model ----
(***************************************************************************)
(* A model of peargent's core: the Tool parameter contract (core/tool.py), *)
(* the round-robin router (core/router.py), the shared State               *)
(* (core/state.py), the Agent tool-use loop with its response parser       *)
(* (core/agent.py) and the Pool sequencing loop (core/pool.py).            *)
(*                                                                         *)
(* Texts (model responses, message contents) are sequences of lexical      *)
(* tokens; Python values are records tagged with their Python type.        *)
(***************************************************************************)
EXTENDS Integers, Sequences, FiniteSets, TLC

VARIABLES
    \* ---- Agent._parse_tool_call applied to one text (SpecParse)
    llm_output,      \* the text handed to the parser
    parse_pc,        \* "idle" | "strict" | "fenced" | "done"
    parse_result,    \* what _parse_tool_call returned (PyNone until then)
    \* ---- one Tool.run call
    tool,            \* the Tool being run: [name, input_parameters]
    tool_args,       \* the argument mapping of the call (a Python value)
    tool_options,    \* the error and retry options the tool was created with
    tool_pc,         \* "idle" | "validate" | "call" | "returned" | "raised"
    tool_outcome,    \* PyNone, then [kind |-> "return", value] or [kind |-> "raise", error]
    \* ---- round_robin_router(agent_names) called once (SpecRouter)
    agent_names,     \* the list the router was built over
    rr_call_count,   \* the call_count it is called with
    rr_pc,           \* "idle" | "call" | "done"
    rr_result,       \* the RouterResult it returned
    \* ---- the Pool and its shared State
    max_iter,        \* Pool.max_iter
    router,          \* Pool.router: [kind, names]
    history,         \* State.history
    kv,              \* State.kv
    \* ---- one Pool.run
    pool_pc,         \* "idle" | "start" | "loop" | "running" | "final" | "done"
    call_count,
    last_result,
    current_input,
    pool_outcome,    \* PyNone, then [kind |-> "return", value] or [kind |-> "raise", error]
    \* ---- one Agent.run
    agent,           \* the name of the agent running
    agent_pc,        \* "idle" | "generate" | "parsing" | "tool" | "returned" | "raised"
    temporary_memory,
    step,
    prompt,
    response,
    agent_outcome,   \* PyNone, then [kind |-> "return", value] or [kind |-> "raise", error]
    \* ---- Agent.run calls on one Agent object that overlap (SpecOverlap)
    overlap,         \* run -> its position and its local variables
    \* ---- one GroqModel (models/groq.py)
    endpoint_url,    \* self.endpoint_url
    groq_pc,         \* "idle" | "ready" | "responded" | "returned" | "raised"
    http_response,   \* what requests.post returned: [status_code, body]
    groq_outcome,    \* PyNone, then [kind |-> "return", value] or [kind |-> "raise", error]
    \* ---- what has happened so far, in order
    trace

parseVars == <<llm_output, parse_pc, parse_result>>
toolVars == <<tool, tool_args, tool_options, tool_pc, tool_outcome>>
rrVars == <<agent_names, rr_call_count, rr_pc, rr_result>>
groqVars == <<endpoint_url, groq_pc, http_response, groq_outcome>>

poolVars == <<max_iter, router, history, kv, pool_pc, call_count, last_result,
              current_input, pool_outcome>>
agentVars == <<agent, agent_pc, temporary_memory, step, prompt, response, agent_outcome,
               overlap>>

vars == <<parseVars, toolVars, rrVars, poolVars, agentVars, groqVars, trace>>

----------------------------------------------------------------------------
(* Bounds of the model                                                      *)

\* Texts handed to the parser are concatenations of at most MaxSegs segments.
MaxSegs == 2
\* round_robin_router is built over at most MaxNames names ...
MaxNames == 3
\* ... and called with a call_count of at most MaxCallCount.
MaxCallCount == 4
\* A Pool is built with a max_iter of at most MaxIter.
MaxIter == 2
\* A tool is created with a max_retries of at most MaxRetries.
MaxRetries == 3
\* The turns of the loop of Agent.run that are followed.
MaxSteps == 3
\* Pool.run is called at most MaxRuns times on one Pool.
MaxRuns == 2
\* generate is called at most MaxRequests times on one GroqModel.
MaxRequests == 2

----------------------------------------------------------------------------
(* Python values                                                            *)

PyNone == [t |-> "NoneType"]
PyStr(s) == [t |-> "str", v |-> s]
PyInt(n) == [t |-> "int", v |-> n]
PyBool(b) == [t |-> "bool", v |-> b]
PyDict(f) == [t |-> "dict", v |-> f]
PyList(q) == [t |-> "list", v |-> q]

EmptyMap == [k \in {} |-> PyNone]

\* `key in d` for a dict value d
HasKey(d, key) == key \in DOMAIN d.v

----------------------------------------------------------------------------
(* Lexical tokens of a text                                                 *)

Fence == [k |-> "fence"]                  \* ```
Ws == [k |-> "ws"]                        \* a run of whitespace
LBrace == [k |-> "{"]
RBrace == [k |-> "}"]
LBracket == [k |-> "["]
RBracket == [k |-> "]"]
Comma == [k |-> ","]
Word(s) == [k |-> "word", s |-> s]        \* prose without any special character
Key(s) == [k |-> "key", s |-> s]          \* "s":   (a JSON string and its colon)
Str(s) == [k |-> "str", s |-> s]          \* "s"    (a JSON string literal)
Num(n) == [k |-> "num", n |-> n]          \* a JSON integer literal
Tag == Word("json")                       \* the language tag of a fence

----------------------------------------------------------------------------
(* json.loads on a token sequence                                           *)

JsonFail == [ok |-> FALSE, val |-> PyNone, next |-> 0]
JsonOk(val, next) == [ok |-> TRUE, val |-> val, next |-> next]

RECURSIVE SkipWs(_, _)
SkipWs(toks, i) ==
    IF i <= Len(toks) /\ toks[i] = Ws THEN SkipWs(toks, i + 1) ELSE i

RECURSIVE JsonValue(_, _), JsonMembers(_, _, _), JsonElements(_, _, _)
\* One JSON value starting at or after position i (leading whitespace skipped).
JsonValue(toks, i) ==
    LET j == SkipWs(toks, i) IN
    IF j > Len(toks) THEN JsonFail
    ELSE IF toks[j].k = "str" THEN JsonOk(PyStr(toks[j].s), j + 1)
    ELSE IF toks[j].k = "num" THEN JsonOk(PyInt(toks[j].n), j + 1)
    ELSE IF toks[j] = LBrace THEN
        LET m == SkipWs(toks, j + 1) IN
        IF m <= Len(toks) /\ toks[m] = RBrace
        THEN JsonOk(PyDict(EmptyMap), m + 1)
        ELSE JsonMembers(toks, m, EmptyMap)
    ELSE IF toks[j] = LBracket THEN
        LET m == SkipWs(toks, j + 1) IN
        IF m <= Len(toks) /\ toks[m] = RBracket
        THEN JsonOk(PyList(<<>>), m + 1)
        ELSE JsonElements(toks, m, <<>>)
    ELSE JsonFail

\* The members of an object from position i on; a repeated key keeps its last value.
JsonMembers(toks, i, acc) ==
    IF i > Len(toks) \/ toks[i].k # "key" THEN JsonFail
    ELSE LET r == JsonValue(toks, i + 1) IN
         IF ~r.ok THEN JsonFail
         ELSE LET acc2 == (toks[i].s :> r.val) @@ acc
                  m == SkipWs(toks, r.next)
              IN  IF m > Len(toks) THEN JsonFail
                  ELSE IF toks[m] = RBrace THEN JsonOk(PyDict(acc2), m + 1)
                  ELSE IF toks[m] = Comma
                       THEN JsonMembers(toks, SkipWs(toks, m + 1), acc2)
                  ELSE JsonFail

\* The elements of an array from position i on.
JsonElements(toks, i, acc) ==
    LET r == JsonValue(toks, i) IN
    IF ~r.ok THEN JsonFail
    ELSE LET acc2 == Append(acc, r.val)
             m == SkipWs(toks, r.next)
         IN  IF m > Len(toks) THEN JsonFail
             ELSE IF toks[m] = RBracket THEN JsonOk(PyList(acc2), m + 1)
             ELSE IF toks[m] = Comma THEN JsonElements(toks, m + 1, acc2)
             ELSE JsonFail

\* json.loads(text): the value, or a JSONDecodeError when the text is not exactly
\* one JSON value (trailing whitespace allowed, anything else is "Extra data").
json_loads(toks) ==
    LET r == JsonValue(toks, 1) IN
    IF r.ok /\ SkipWs(toks, r.next) > Len(toks)
    THEN [ok |-> TRUE, val |-> r.val]
    ELSE [ok |-> FALSE, val |-> PyNone]

\* str.strip(): leading and trailing whitespace removed.
RECURSIVE RStrip(_)
RStrip(toks) ==
    IF Len(toks) > 0 /\ toks[Len(toks)] = Ws
    THEN RStrip(SubSeq(toks, 1, Len(toks) - 1)) ELSE toks

strip(toks) ==
    LET s == RStrip(toks) IN SubSeq(s, SkipWs(s, 1), Len(s))

----------------------------------------------------------------------------
(* re.search(r'```(?:json)?\s*(\{.*?\})\s*```', text, re.DOTALL)            *)

\* The position of the "{" that a match starting at fence i opens with, or 0:
\* the fence, an optional tag, any whitespace, then the brace.
GroupStart(toks, i) ==
    IF i > Len(toks) \/ toks[i] # Fence THEN 0
    ELSE LET afterTag == IF i + 1 <= Len(toks) /\ toks[i + 1] = Tag
                         THEN i + 2 ELSE i + 1
             q == SkipWs(toks, afterTag)
         IN  IF q <= Len(toks) /\ toks[q] = LBrace THEN q ELSE 0

\* Whether a group may end at e: a "}" followed by any whitespace and a fence.
GroupEndsAt(toks, e) ==
    /\ e <= Len(toks)
    /\ toks[e] = RBrace
    /\ LET f == SkipWs(toks, e + 1) IN f <= Len(toks) /\ toks[f] = Fence

\* The leftmost match, its group the shortest one (.*? is lazy); none: ok = FALSE.
re_search(toks) ==
    LET starts == {i \in 1..Len(toks) :
                      /\ GroupStart(toks, i) # 0
                      /\ \E e \in (GroupStart(toks, i) + 1)..Len(toks) :
                            GroupEndsAt(toks, e)}
    IN  IF starts = {} THEN [ok |-> FALSE, group |-> <<>>]
        ELSE LET i == CHOOSE a \in starts : \A b \in starts : a <= b
                 q == GroupStart(toks, i)
                 ends == {e \in (q + 1)..Len(toks) : GroupEndsAt(toks, e)}
                 e == CHOOSE a \in ends : \A b \in ends : a <= b
             IN  [ok |-> TRUE, group |-> SubSeq(toks, q, e)]

----------------------------------------------------------------------------
(* Agent._parse_tool_call                                                   *)

\* Mutant of IsToolRequest: the args key is looked for under another name.
IsToolRequest_arguments(x) ==
    x.t = "dict" /\ HasKey(x, "tool") /\ HasKey(x, "arguments")

\* isinstance(x, dict) and "tool" in x and "args" in x
IsToolRequest(x) == x.t = "dict" /\ HasKey(x, "tool") /\ HasKey(x, "args")

\* First stage: the whole text as plain JSON.
StrictParse(text) ==
    LET r == json_loads(strip(text)) IN
    IF r.ok /\ IsToolRequest(r.val) THEN r.val ELSE PyNone

\* Second stage: the first fenced block the pattern finds.
FencedParse(text) ==
    LET m == re_search(text) IN
    IF ~m.ok THEN PyNone
    ELSE LET r == json_loads(m.group) IN
         IF r.ok /\ IsToolRequest(r.val) THEN r.val ELSE PyNone

_parse_tool_call(text) ==
    IF StrictParse(text) # PyNone THEN StrictParse(text) ELSE FencedParse(text)

----------------------------------------------------------------------------
(* Tool.run (core/tool.py)                                                  *)

\* Tool(name, description, input_parameters, call_function): input_parameters is
\* the ordered mapping parameter name -> expected type, a sequence of pairs.
Tool(name, input_parameters) ==
    [name |-> name, input_parameters |-> input_parameters]

\* Mutant of isinstance: the type of a value is never looked at.
isinstance_any(x, type) == TRUE

\* isinstance(x, type): bool is a subclass of int.
isinstance(x, type) == x.t = type \/ (x.t = "bool" /\ type = "int")

RECURSIVE CheckParameters(_, _, _)
\* The loop of Tool.run over input_parameters.items() from position i on: the
\* first violation in declaration order raises, "ok" when there is none.
CheckParameters(params, args, i) ==
    IF i > Len(params) THEN "ok"
    ELSE LET key == params[i][1]
             expected_type == params[i][2]
         IN  IF ~HasKey(args, key) THEN "ValueError: missing parameter"
             ELSE IF ~isinstance(args.v[key], expected_type)
                  THEN "TypeError: parameter type"
             ELSE CheckParameters(params, args, i + 1)

\* What call_function(**args) may do: return one of these values, or raise.
CallableResults == {PyStr("out"), PyNone}

ToolIdle ==
    /\ tool = Tool("", <<>>)
    /\ tool_args = PyNone
    /\ tool_options = PyNone
    /\ tool_pc = "idle"
    /\ tool_outcome = PyNone

\* tool.py:13-17: every declared parameter is checked before anything is called.
ToolValidate ==
    /\ tool_pc = "validate"
    /\ LET check == CheckParameters(tool.input_parameters, tool_args, 1) IN
        IF check = "ok"
        THEN /\ tool_pc' = "call"
             /\ UNCHANGED tool_outcome
        ELSE /\ tool_pc' = "raised"
             /\ tool_outcome' = [kind |-> "raise", error |-> check]
    /\ UNCHANGED <<tool, tool_args, tool_options, trace, parseVars, rrVars, groqVars, poolVars,
                   agentVars>>

\* Mutant of ToolCall: the callable is given the declared parameters only.
ToolCall_declared_only ==
    /\ tool_pc = "call"
    /\ LET declared == {tool.input_parameters[i][1] :
                            i \in 1..Len(tool.input_parameters)}
           given == PyDict([k \in declared \cap DOMAIN tool_args.v |-> tool_args.v[k]])
       IN
       \/ \E value \in CallableResults :
              /\ tool_outcome' = [kind |-> "return", value |-> value]
              /\ tool_pc' = "returned"
              /\ trace' = Append(trace, [e |-> "callable", tool |-> tool.name,
                                         args |-> given, raised |-> FALSE])
       \/ /\ tool_outcome' = [kind |-> "raise", error |-> "RuntimeError: callable failed"]
          /\ tool_pc' = "raised"
          /\ trace' = Append(trace, [e |-> "callable", tool |-> tool.name,
                                     args |-> given, raised |-> TRUE])
    /\ UNCHANGED <<tool, tool_args, tool_options, parseVars, rrVars, groqVars, poolVars,
                   agentVars>>

\* tool.py:19: the callable is invoked once; its result, or its exception, is
\* the call's.
ToolCall ==
    /\ tool_pc = "call"
    /\ \/ \E value \in CallableResults :
              /\ tool_outcome' = [kind |-> "return", value |-> value]
              /\ tool_pc' = "returned"
              /\ trace' = Append(trace, [e |-> "callable", tool |-> tool.name,
                                         args |-> tool_args, raised |-> FALSE])
       \/ /\ tool_outcome' = [kind |-> "raise", error |-> "RuntimeError: callable failed"]
          /\ tool_pc' = "raised"
          /\ trace' = Append(trace, [e |-> "callable", tool |-> tool.name,
                                     args |-> tool_args, raised |-> TRUE])
    /\ UNCHANGED <<tool, tool_args, tool_options, parseVars, rrVars, groqVars, poolVars,
                   agentVars>>

----------------------------------------------------------------------------
(* round_robin_router (core/router.py)                                      *)

RouterResult(next_agent_name) == [next_agent_name |-> next_agent_name]

\* Mutant of round_robin_router: the bound test is off by one.
round_robin_router_gt(names, count) ==
    IF count > Len(names) \/ Len(names) = 0 THEN RouterResult(PyNone)
    ELSE RouterResult(PyStr(names[(count % Len(names)) + 1]))

\* Mutant of round_robin_router: the list is gone through from its end.
round_robin_router_reversed(names, count) ==
    IF count >= Len(names) THEN RouterResult(PyNone)
    ELSE RouterResult(PyStr(names[Len(names) - count]))

\* router.py:13-16; the list is indexed from 0 there and from 1 here.
round_robin_router(names, count) ==
    IF count >= Len(names) THEN RouterResult(PyNone)
    ELSE RouterResult(PyStr(names[(count % Len(names)) + 1]))

GroqIdle ==
    /\ endpoint_url = PyNone
    /\ groq_pc = "idle"
    /\ http_response = PyNone
    /\ groq_outcome = PyNone

RouterIdle ==
    /\ agent_names = <<>>
    /\ rr_call_count = 0
    /\ rr_pc = "idle"
    /\ rr_result = RouterResult(PyNone)

ParseIdle ==
    /\ llm_output = <<>>
    /\ parse_pc = "idle"
    /\ parse_result = PyNone

\* The Agent.run calls that may overlap on one Agent object.
RunIds == {1, 2}

\* A call that has not been made.
NoRun == [pc |-> "idle", input |-> <<>>, step |-> 0, response |-> <<>>,
          output |-> PyNone, appended |-> <<>>, outcome |-> PyNone]

AgentIdle ==
    /\ overlap = [r \in RunIds |-> NoRun]
    /\ agent = ""
    /\ agent_pc = "idle"
    /\ temporary_memory = <<>>
    /\ step = 0
    /\ prompt = PyNone
    /\ response = <<>>
    /\ agent_outcome = PyNone

PoolIdle ==
    /\ max_iter = 0
    /\ router = [kind |-> "default", names |-> <<>>]
    /\ history = <<>>
    /\ kv = EmptyMap
    /\ pool_pc = "idle"
    /\ call_count = 0
    /\ last_result = PyNone
    /\ current_input = <<>>
    /\ pool_outcome = PyNone

----------------------------------------------------------------------------
(* Texts handed to the parser                                               *)

\* json.dumps of the single-tool request {"tool": name, "args": {"text": arg}}
SingleText(name, arg) ==
    <<LBrace, Key("tool"), Ws, Str(name), Comma, Ws, Key("args"), Ws,
      LBrace, Key("text"), Ws, Str(arg), RBrace, RBrace>>

SingleValue(name, arg) ==
    PyDict([tool |-> PyStr(name), args |-> PyDict([text |-> PyStr(arg)])])

\* json.dumps of the parallel request {"tools": [{...}, {...}]}
ParallelText(names) ==
    <<LBrace, Key("tools"), Ws, LBracket>>
    \o SingleText(names[1], "hi") \o <<Comma, Ws>> \o SingleText(names[2], "hi")
    \o <<RBracket, RBrace>>

\* A request with its keys in another order and a key of its own:
\* {"args": {}, "note": 1, "tool": name}
ReorderedText(name) ==
    <<LBrace, Key("args"), Ws, LBrace, RBrace, Comma, Ws, Key("note"), Ws, Num(1),
      Comma, Ws, Key("tool"), Ws, Str(name), RBrace>>

ReorderedValue(name) ==
    PyDict([args |-> PyDict(EmptyMap), note |-> PyInt(1), tool |-> PyStr(name)])

\* A JSON object that is no request, and a block whose JSON is cut short.
OtherText == <<LBrace, Key("text"), Ws, Str("hi"), RBrace>>
BrokenText == <<LBrace, Key("tool"), Ws, Str("echo"), Comma>>

Fenced(body) == <<Fence, Tag, Ws>> \o body \o <<Ws, Fence>>
FencedBare(body) == <<Fence>> \o body \o <<Fence>>

ProseSegs == {<<Word("Sure")>>, <<Ws>>}

Segments ==
    ProseSegs \cup
    { SingleText("echo", "hi"), ReorderedText("nope"), ParallelText(<<"echo", "echo">>), OtherText,
      Fenced(SingleText("echo", "hi")), FencedBare(SingleText("nope", "yo")),
      Fenced(OtherText), Fenced(BrokenText),
      Fenced(ParallelText(<<"echo", "nope">>)) }

RECURSIVE Concats(_)
\* Every concatenation of at most n segments.
Concats(n) ==
    IF n = 0 THEN {<<>>}
    ELSE Concats(n - 1) \cup {t \o s : t \in Concats(n - 1), s \in Segments}

ParseTexts == Concats(MaxSegs)

----------------------------------------------------------------------------
(* SpecParse: _parse_tool_call applied to each text                         *)

InitParse ==
    /\ llm_output \in ParseTexts
    /\ parse_pc = "strict"
    /\ parse_result = PyNone
    /\ ToolIdle /\ RouterIdle /\ PoolIdle /\ AgentIdle
    /\ GroqIdle
    /\ trace = <<>>

\* agent.py:118-127: the text as a whole
ParseStrict ==
    /\ parse_pc = "strict"
    /\ parse_result' = StrictParse(llm_output)
    /\ parse_pc' = IF StrictParse(llm_output) # PyNone THEN "done" ELSE "fenced"
    /\ UNCHANGED llm_output
    /\ UNCHANGED <<toolVars, rrVars, groqVars, poolVars, agentVars, trace>>

\* agent.py:129-145: the fenced block
ParseFenced ==
    /\ parse_pc = "fenced"
    /\ parse_result' = FencedParse(llm_output)
    /\ parse_pc' = "done"
    /\ UNCHANGED llm_output
    /\ UNCHANGED <<toolVars, rrVars, groqVars, poolVars, agentVars, trace>>

NextParse == ParseStrict \/ ParseFenced

SpecParse == InitParse /\ [][NextParse]_vars

----------------------------------------------------------------------------
(* SpecTool: Tool.run applied to each tool and argument mapping             *)

ParamKeys == {"text", "times"}
ParamTypes == {"str", "int"}

\* The input specs: every ordered mapping over ParamKeys.
InputSpecs ==
    {<<>>}
    \cup { <<<<k, ty>>>> : k \in ParamKeys, ty \in ParamTypes }
    \cup { ps \in { <<<<k1, ty1>>, <<k2, ty2>>>> :
                       k1 \in ParamKeys, k2 \in ParamKeys,
                       ty1 \in ParamTypes, ty2 \in ParamTypes } :
              ps[1][1] # ps[2][1] }

ArgValues == {PyStr("hi"), PyInt(3), PyBool(TRUE)}

\* The options the examples create their tools with (on_error, max_retries,
\* retry_delay in seconds, retry_backoff).
ToolOptions ==
    [on_error : {"raise", "return_error", "return_none"},
     max_retries : 0..MaxRetries,
     retry_delay : {1},
     retry_backoff : BOOLEAN]

\* The argument mappings: every dict over some of the keys, one undeclared.
ArgMappings ==
    { PyDict(f) : f \in UNION { [ks -> ArgValues] : ks \in SUBSET (ParamKeys \cup {"extra"}) } }

InitTool ==
    /\ tool \in { Tool("repeat", ps) : ps \in InputSpecs }
    /\ tool_args \in ArgMappings
    /\ tool_options \in ToolOptions \cup {PyNone}
    /\ tool_pc = "validate"
    /\ tool_outcome = PyNone
    /\ ParseIdle /\ RouterIdle /\ PoolIdle /\ AgentIdle
    /\ GroqIdle
    /\ trace = <<>>

NextTool == ToolValidate \/ ToolCall

SpecTool == InitTool /\ [][NextTool]_vars

----------------------------------------------------------------------------
(* SpecRouter: round_robin_router applied to each list and call_count       *)

AgentUniverse == {"A", "B", "C"}

RECURSIVE NameLists(_)
\* Every list of at most n names.
NameLists(n) ==
    IF n = 0 THEN {<<>>}
    ELSE NameLists(n - 1)
         \cup {Append(l, a) : l \in {x \in NameLists(n - 1) : Len(x) = n - 1},
                              a \in AgentUniverse}

InitRouter ==
    /\ agent_names \in NameLists(MaxNames)
    /\ rr_call_count \in 0..MaxCallCount
    /\ rr_pc = "call"
    /\ rr_result = RouterResult(PyNone)
    /\ ParseIdle /\ ToolIdle /\ PoolIdle /\ AgentIdle
    /\ GroqIdle
    /\ trace = <<>>

\* One call _router(state, call_count, last_result).
RouterCall ==
    /\ rr_pc = "call"
    /\ rr_result' = round_robin_router(agent_names, rr_call_count)
    /\ rr_pc' = "done"
    /\ UNCHANGED <<agent_names, rr_call_count, parseVars, toolVars, poolVars,
                   agentVars, groqVars, trace>>

NextRouter == RouterCall

SpecRouter == InitRouter /\ [][NextRouter]_vars

----------------------------------------------------------------------------
(* GroqModel (models/groq.py)                                               *)

\* groq.py:9: the class attribute, the default endpoint.
ENDPOINT_URL == "https://api.groq.com/openai/v1/chat/completions"

\* An endpoint a caller passes as endpoint_url=.
ProxyUrl == "https://proxy.example/v1/chat/completions"

\* What the constructor is given as endpoint_url: nothing, "" or an endpoint.
EndpointArgs == {PyNone, PyStr(""), PyStr(ProxyUrl)}

\* Python's `a or b` over an optional str.
Or(a, b) == IF a = PyNone \/ a.v = "" THEN b ELSE a.v

\* The prompts generate is called with.
Prompts == {"Hello", "Again"}

\* The statuses the endpoint answers with.
StatusCodes == {200, 401, 429, 500}

\* The JSON bodies it answers with: a completion, a choice without a message,
\* no choice at all, and no choices key.
Bodies ==
    { [choices |-> <<[message |-> [content |-> "Sure"]]>>],
      [choices |-> <<[finish_reason |-> "stop"]>>],
      [choices |-> <<>>],
      [error |-> "rate limited"] }

\* groq.py:47: .get("choices", [{}])[0].get("message", {}).get("content", "");
\* [0] of an empty list raises IndexError.
Content(body) ==
    LET choices == IF "choices" \in DOMAIN body THEN body.choices
                   ELSE <<[none |-> TRUE]>>
    IN  IF choices = <<>> THEN [kind |-> "raise", error |-> "IndexError"]
        ELSE IF "message" \in DOMAIN choices[1]
                /\ "content" \in DOMAIN choices[1].message
        THEN [kind |-> "return", value |-> choices[1].message.content]
        ELSE [kind |-> "return", value |-> ""]

\* groq.py:11-23: the model after construction, with an API key.
InitGroq ==
    /\ \E arg \in EndpointArgs : endpoint_url = Or(arg, ENDPOINT_URL)
    /\ groq_pc = "ready"
    /\ http_response = PyNone
    /\ groq_outcome = PyNone
    /\ ParseIdle /\ ToolIdle /\ RouterIdle /\ PoolIdle /\ AgentIdle
    /\ trace = <<>>

\* groq.py:26-41: the request is built and posted.
Generate ==
    /\ groq_pc = "ready"
    /\ Cardinality({i \in 1..Len(trace) : trace[i].e = "post"}) < MaxRequests
    /\ \E p \in Prompts, status \in StatusCodes, body \in Bodies :
          /\ http_response' = [status_code |-> status, body |-> body]
          /\ trace' = Append(trace, [e |-> "post", url |-> ENDPOINT_URL,
                                     prompt |-> p])
    /\ groq_pc' = "responded"
    /\ groq_outcome' = PyNone
    /\ UNCHANGED <<endpoint_url, parseVars, toolVars, rrVars, poolVars, agentVars>>

\* groq.py:43-47: any status but 200 raises, 200 returns the content.
Respond ==
    /\ groq_pc = "responded"
    /\ groq_outcome' =
           IF http_response.status_code # 200
           THEN [kind |-> "raise", error |-> "RuntimeError: Groq API error"]
           ELSE Content(http_response.body)
    /\ groq_pc' = "ready"
    /\ UNCHANGED <<endpoint_url, http_response, parseVars, toolVars, rrVars,
                   poolVars, agentVars, trace>>

NextGroq == Generate \/ Respond

SpecGroq == InitGroq /\ [][NextGroq]_vars

----------------------------------------------------------------------------
(* Stop conditions (core/stopping.py: limit_steps)                          *)

\* limit_steps(max_steps): the condition that fires from max_steps on.
limit_steps(max_steps) == [kind |-> "limit_steps", max_steps |-> max_steps]

\* A condition given as stop= whose should_stop answers false on every call.
never_stops == [kind |-> "never"]

\* Mutant of should_stop: the limit fires one step late.
should_stop_late(condition, step_number, memory) ==
    condition.kind = "limit_steps" /\ step_number > condition.max_steps

\* condition.should_stop(step, memory)
should_stop(condition, step_number, memory) ==
    condition.kind = "limit_steps" /\ step_number >= condition.max_steps

----------------------------------------------------------------------------
(* The agents of the pool (Agent.__init__, agent.py:10-34)                  *)

\* The tool every agent registers: echo(text: str).
EchoTool == Tool("echo", << <<"text", "str">> >>)

\* agents_dict: name -> Agent. `stop` is the stop condition of the agent.
agents_dict ==
    [ A |-> [name |-> "A", persona |-> "persona of A",
             tools |-> [echo |-> EchoTool], stop |-> limit_steps(1)],
      B |-> [name |-> "B", persona |-> "persona of B",
             tools |-> [echo |-> EchoTool], stop |-> limit_steps(0)] ]

\* An agent that is in no pool and whose stop condition never fires.
Looper == [name |-> "N", persona |-> "persona of N",
           tools |-> [echo |-> EchoTool], stop |-> never_stops]

\* Every Agent object: those of the pool and the one outside it.
Agents ==
    [n \in DOMAIN agents_dict \cup {"N"} |->
        IF n = "N" THEN Looper ELSE agents_dict[n]]

\* agent.py:18-28: the schema summaries, derived once from the tools.
tool_schemas(a) ==
    { [name |-> a.tools[n].name, parameters |-> a.tools[n].input_parameters] :
          n \in DOMAIN a.tools }

\* str.capitalize() of a role
capitalize(role) ==
    CASE role = "user" -> "User"
      [] role = "assistant" -> "Assistant"
      [] role = "tool" -> "Tool"

\* agent.py:42-47: "Role: content" for every entry of the memory, in order.
memory_str(memory) ==
    [i \in 1..Len(memory) |->
        [label |-> capitalize(memory[i].role), content |-> memory[i].content]]

\* agent.py:40-48
_build_initial_prompt(a, memory) ==
    [persona |-> a.persona, tools_prompt |-> tool_schemas(a),
     body |-> memory_str(memory), tail |-> "Assistant:"]

\* Mutant of follow_up_prompt: only the tool entry just appended is rendered.
follow_up_prompt_last_only(a, memory) ==
    [persona |-> a.persona, tools_prompt |-> tool_schemas(a),
     body |-> <<[label |-> "Tool", name |-> memory[Len(memory)].content.name,
                 args |-> memory[Len(memory)].content.args,
                 output |-> memory[Len(memory)].content.output]>>,
     tail |-> "Assistant: Based on the most recent tool output shown above"]

\* agent.py:91-105: the follow-up prompt; a tool entry is rendered as
\* "Tool 'name' called with args: ... Output: ...".
follow_up_prompt(a, memory) ==
    [persona |-> a.persona, tools_prompt |-> tool_schemas(a),
     body |-> [i \in 1..Len(memory) |->
                  IF memory[i].role # "tool"
                  THEN [label |-> capitalize(memory[i].role),
                        content |-> memory[i].content]
                  ELSE [label |-> "Tool", name |-> memory[i].content.name,
                        args |-> memory[i].content.args,
                        output |-> memory[i].content.output]],
     tail |-> "Assistant: Based on the most recent tool output shown above"]

\* agent.py:88: f"Stopped after {step} steps due to stop condition."
StoppedText(n) ==
    <<Word("Stopped after"), Num(n), Word("steps due to stop condition.")>>

\* agent.py:50-51
_add_to_memory(memory, role, content) ==
    Append(memory, [role |-> role, content |-> content])

\* Mutant of run_memory: the memory the run before left is not discarded.
run_memory_kept(memory, input_data) == _add_to_memory(memory, "user", input_data)

\* agent.py:54-56: the memory a run starts with, whatever the memory was.
run_memory(memory, input_data) == _add_to_memory(<<>>, "user", input_data)

\* What model.generate(prompt) may answer.
ModelResponses ==
    { <<Word("Sure")>>,                              \* a final answer
      SingleText("echo", "hi"),                      \* a registered tool
      SingleText("nope", "hi"),                      \* a tool nobody registered
      ReorderedText("echo"),                         \* a registered tool, no text
      <<Word("Sure"), Ws>> \o Fenced(SingleText("echo", "yo")),
      ParallelText(<<"echo", "echo">>),              \* a batch of registered tools
      ParallelText(<<"echo", "nope">>),              \* a batch with an unknown tool
      StoppedText(1) }                               \* the words of a stop indicator

\* What _parse_tool_call makes of each answer of the model.
Parsed == [r \in ModelResponses |-> _parse_tool_call(r)]

----------------------------------------------------------------------------
(* Agent.run (agent.py:53-111)                                              *)

Self == Agents[agent]

\* Mutant of AgentGenerate: the response is parsed without being appended to
\* the memory.
AgentGenerate_not_recorded ==
    /\ agent_pc = "generate"
    /\ step < MaxSteps
    /\ step' = step + 1
    /\ parse_pc' = "strict"
    /\ parse_result' = PyNone
    /\ agent_pc' = "parsing"
    /\ \E r \in ModelResponses :
          /\ response' = r
          /\ llm_output' = r
          /\ trace' = Append(trace, [e |-> "generate", agent |-> agent,
                                     response |-> r])
    /\ UNCHANGED <<agent, prompt, agent_outcome, toolVars, rrVars, groqVars, poolVars,
                   temporary_memory>>
    /\ UNCHANGED overlap

\* agent.py:62-70: one model turn. The response is appended to the memory and
\* handed to the parser.
AgentGenerate ==
    /\ agent_pc = "generate"
    /\ step < MaxSteps
    /\ step' = step + 1
    /\ parse_pc' = "strict"
    /\ parse_result' = PyNone
    /\ agent_pc' = "parsing"
    /\ \E r \in ModelResponses :
          /\ response' = r
          /\ temporary_memory' =
                 Append(temporary_memory, [role |-> "assistant", content |-> r])
          /\ llm_output' = r
          /\ trace' = Append(trace, [e |-> "generate", agent |-> agent,
                                     response |-> r])
    /\ UNCHANGED <<agent, prompt, agent_outcome, toolVars, rrVars, groqVars, poolVars>>
    /\ UNCHANGED overlap

\* `tool_name in self.tools`
Registered(a, tool_name) == tool_name.t = "str" /\ tool_name.v \in DOMAIN a.tools

\* Mutant of AgentFinal: the stop condition is evaluated on a final answer too.
AgentFinal_stop_checked ==
    /\ agent_pc = "parsing" /\ parse_pc = "done"
    /\ parse_result = PyNone
    /\ LET value == IF should_stop(Self.stop, step - 1, temporary_memory)
                    THEN StoppedText(step) ELSE response
       IN  /\ agent_outcome' = [kind |-> "return", value |-> value]
           /\ trace' = Append(trace, [e |-> "agent.return", value |-> value])
    /\ agent_pc' = "returned"
    /\ parse_pc' = "idle"
    /\ UNCHANGED <<agent, temporary_memory, step, prompt, response, llm_output,
                   parse_result, toolVars, rrVars, groqVars, poolVars>>
    /\ UNCHANGED overlap

\* agent.py:109-111: no tool call, the response is the answer.
AgentFinal ==
    /\ agent_pc = "parsing" /\ parse_pc = "done"
    /\ parse_result = PyNone
    /\ agent_outcome' = [kind |-> "return", value |-> response]
    /\ agent_pc' = "returned"
    /\ parse_pc' = "idle"
    /\ trace' = Append(trace, [e |-> "agent.return", value |-> response])
    /\ UNCHANGED <<agent, temporary_memory, step, prompt, response, llm_output,
                   parse_result, toolVars, rrVars, groqVars, poolVars>>
    /\ UNCHANGED overlap

\* Mutant of AgentUnknownTool: the unknown name becomes an error entry of the
\* memory and the loop goes on, as for an entry of a batch.
AgentUnknownTool_recorded ==
    /\ agent_pc = "parsing" /\ parse_pc = "done"
    /\ parse_result # PyNone
    /\ ~Registered(Self, parse_result.v.tool)
    /\ LET entry == [role |-> "tool",
                     content |-> [name |-> parse_result.v.tool.v,
                                  args |-> parse_result.v.args,
                                  output |-> PyStr("Error: tool not found")]]
           memory == Append(temporary_memory, entry)
       IN  /\ temporary_memory' = memory
           /\ prompt' = follow_up_prompt(Self, memory)
    /\ agent_pc' = "generate"
    /\ parse_pc' = "idle"
    /\ UNCHANGED <<agent, step, response, agent_outcome, llm_output, parse_result,
                   toolVars, rrVars, groqVars, poolVars, trace>>
    /\ UNCHANGED overlap

\* agent.py:75-76: the tool is not in the registry.
AgentUnknownTool ==
    /\ agent_pc = "parsing" /\ parse_pc = "done"
    /\ parse_result # PyNone
    /\ ~Registered(Self, parse_result.v.tool)
    /\ agent_outcome' = [kind |-> "raise", error |-> "ValueError: tool not found"]
    /\ agent_pc' = "raised"
    /\ parse_pc' = "idle"
    /\ trace' = Append(trace, [e |-> "agent.raise",
                               error |-> "ValueError: tool not found"])
    /\ UNCHANGED <<agent, temporary_memory, step, prompt, response, llm_output,
                   parse_result, toolVars, rrVars, groqVars, poolVars>>
    /\ UNCHANGED overlap

\* agent.py:72-78: the tool is looked up and run with the request's args.
AgentRunTool ==
    /\ agent_pc = "parsing" /\ parse_pc = "done"
    /\ parse_result # PyNone
    /\ Registered(Self, parse_result.v.tool)
    /\ tool' = Self.tools[parse_result.v.tool.v]
    /\ tool_args' = parse_result.v.args
    /\ tool_options' = PyNone
    /\ tool_pc' = "validate"
    /\ tool_outcome' = PyNone
    /\ agent_pc' = "tool"
    /\ parse_pc' = "idle"
    /\ UNCHANGED <<agent, temporary_memory, step, prompt, response, agent_outcome,
                   llm_output, parse_result, rrVars, groqVars, poolVars, trace>>
    /\ UNCHANGED overlap

\* Mutant of AgentToolRaised: what Tool.run raises is caught and returned as
\* the result of the run.
AgentToolRaised_returned ==
    /\ agent_pc = "tool" /\ tool_pc = "raised"
    /\ agent_outcome' = [kind |-> "return", value |-> <<Word(tool_outcome.error)>>]
    /\ agent_pc' = "returned"
    /\ tool_pc' = "idle"
    /\ trace' = Append(trace, [e |-> "agent.return",
                               value |-> <<Word(tool_outcome.error)>>])
    /\ UNCHANGED <<agent, temporary_memory, step, prompt, response, parseVars,
                   tool, tool_args, tool_options, tool_outcome, rrVars, groqVars, poolVars>>
    /\ UNCHANGED overlap

\* agent.py:78: what Tool.run raises leaves Agent.run as it is.
AgentToolRaised ==
    /\ agent_pc = "tool" /\ tool_pc = "raised"
    /\ agent_outcome' = tool_outcome
    /\ agent_pc' = "raised"
    /\ tool_pc' = "idle"
    /\ trace' = Append(trace, [e |-> "agent.raise", error |-> tool_outcome.error])
    /\ UNCHANGED <<agent, temporary_memory, step, prompt, response, parseVars,
                   tool, tool_args, tool_options, tool_outcome, rrVars, groqVars, poolVars>>
    /\ UNCHANGED overlap

\* Mutant of AgentAfterTool: the stop condition is evaluated and its answer
\* dropped, so the loop goes on until the model gives a final answer.
AgentAfterTool_stop_ignored ==
    /\ agent_pc = "tool" /\ tool_pc = "returned"
    /\ LET entry == [role |-> "tool",
                     content |-> [name |-> parse_result.v.tool.v,
                                  args |-> parse_result.v.args,
                                  output |-> tool_outcome.value]]
           memory == Append(temporary_memory, entry)
           stop == should_stop(Self.stop, step - 1, memory)
       IN  /\ temporary_memory' = memory
           /\ prompt' = follow_up_prompt(Self, memory)
           /\ trace' = Append(trace, [e |-> "should_stop", step |-> step - 1,
                                      memory |-> Len(memory), result |-> stop])
    /\ agent_pc' = "generate"
    /\ tool_pc' = "idle"
    /\ UNCHANGED <<agent, step, response, agent_outcome, parseVars, tool, tool_args,
                   tool_options, tool_outcome, rrVars, groqVars, poolVars>>
    /\ UNCHANGED overlap

\* Mutant of AgentAfterTool: the tool entry records the output without the
\* args of the request.
AgentAfterTool_args_dropped ==
    /\ agent_pc = "tool" /\ tool_pc = "returned"
    /\ LET entry == [role |-> "tool",
                     content |-> [name |-> parse_result.v.tool.v,
                                  args |-> PyDict(EmptyMap),
                                  output |-> tool_outcome.value]]
           memory == Append(temporary_memory, entry)
           stop == should_stop(Self.stop, step - 1, memory)
           stopped == [e |-> "should_stop", step |-> step - 1,
                       memory |-> Len(memory), result |-> stop]
       IN  /\ temporary_memory' = memory
           /\ IF stop
              THEN /\ agent_outcome' = [kind |-> "return", value |-> StoppedText(step)]
                   /\ agent_pc' = "returned"
                   /\ trace' = trace \o <<stopped, [e |-> "agent.return",
                                                    value |-> StoppedText(step)]>>
                   /\ UNCHANGED prompt
              ELSE /\ prompt' = follow_up_prompt(Self, memory)
                   /\ agent_pc' = "generate"
                   /\ trace' = Append(trace, stopped)
                   /\ UNCHANGED agent_outcome
    /\ tool_pc' = "idle"
    /\ UNCHANGED <<agent, step, response, parseVars, tool, tool_args, tool_options,
                   tool_outcome, rrVars, groqVars, poolVars>>
    /\ UNCHANGED overlap

\* agent.py:81-107: the tool entry is appended, the stop condition evaluated,
\* and the run either stops or goes on with the follow-up prompt.
AgentAfterTool ==
    /\ agent_pc = "tool" /\ tool_pc = "returned"
    /\ LET entry == [role |-> "tool",
                     content |-> [name |-> parse_result.v.tool.v,
                                  args |-> parse_result.v.args,
                                  output |-> tool_outcome.value]]
           memory == Append(temporary_memory, entry)
           stop == should_stop(Self.stop, step - 1, memory)
           stopped == [e |-> "should_stop", step |-> step - 1,
                       memory |-> Len(memory), result |-> stop]
       IN  /\ temporary_memory' = memory
           /\ IF stop
              THEN /\ agent_outcome' = [kind |-> "return", value |-> StoppedText(step)]
                   /\ agent_pc' = "returned"
                   /\ trace' = trace \o <<stopped, [e |-> "agent.return",
                                                    value |-> StoppedText(step)]>>
                   /\ UNCHANGED prompt
              ELSE /\ prompt' = follow_up_prompt(Self, memory)
                   /\ agent_pc' = "generate"
                   /\ trace' = Append(trace, stopped)
                   /\ UNCHANGED agent_outcome
    /\ tool_pc' = "idle"
    /\ UNCHANGED <<agent, step, response, parseVars, tool, tool_args, tool_options,
                   tool_outcome, rrVars, groqVars, poolVars>>
    /\ UNCHANGED overlap

----------------------------------------------------------------------------
(* Pool.run (pool.py:24-56) over State (state.py)                           *)

\* Mutant of add_message: the message is recorded without its agent tag.
add_message_untagged(h, role, content, name) ==
    Append(h, [role |-> role, content |-> content, agent |-> PyNone])

\* Mutant of add_message: the message is put in front of the history.
add_message_front(h, role, content, name) ==
    <<[role |-> role, content |-> content, agent |-> name]>> \o h

\* State.set
set(store, key, value) ==
    [k \in DOMAIN store \cup {key} |-> IF k = key THEN value ELSE store[k]]

\* A key-value store a State is created with (State(data)): none, or one key.
InitialStores == {EmptyMap, [topic |-> PyStr("hi")]}

\* State.add_message
add_message(h, role, content, name) ==
    Append(h, [role |-> role, content |-> content, agent |-> name])

\* The pool's user input.
UserInput == <<Word("Hello")>>

\* The lists a pool's round-robin router is built over (C is not in the pool).
PoolNameLists == {<<>>, <<"A", "B">>, <<"B", "B", "A">>, <<"A", "C">>}

\* The routers a pool is built with: the default one (pool.py:20), a round-robin
\* one, or any other RouterFn, which may answer anything on any call.
Routers ==
    {[kind |-> "default", names |-> <<>>], [kind |-> "any", names |-> <<>>]}
    \cup {[kind |-> "round_robin", names |-> l] : l \in PoolNameLists}

\* What self.router(state, call_count, last_result) may return.
RouterAnswers(r, count) ==
    CASE r.kind = "default" -> {RouterResult(PyNone)}
      [] r.kind = "round_robin" -> {round_robin_router(r.names, count)}
      [] r.kind = "any" ->
            {PyNone, RouterResult(PyNone)}
            \cup {RouterResult(PyStr(n)) : n \in AgentUniverse}

\* A history a State may be injected with: empty, or left by earlier work.
InitialHistories ==
    { <<>>,
      <<[role |-> "assistant", content |-> <<Word("Earlier")>>, agent |-> PyStr("B")],
        [role |-> "user", content |-> <<Word("Thanks")>>, agent |-> PyNone]>> }

\* pool.py:55: the content of the newest assistant message, "" when there is none.
RECURSIVE LastAssistant(_, _)
LastAssistant(h, i) ==
    IF i = 0 THEN <<>>
    ELSE IF h[i].role = "assistant" THEN h[i].content
    ELSE LastAssistant(h, i - 1)

\* Mutant of final_result: the oldest assistant message instead of the newest.
final_result_oldest(h) ==
    LET idx == {i \in 1..Len(h) : h[i].role = "assistant"} IN
    IF idx = {} THEN <<>>
    ELSE h[CHOOSE i \in idx : \A j \in idx : i <= j].content

final_result(h) == LastAssistant(h, Len(h))

\* str(output) of what Agent.run returns, a str already.
str(output) == output

Init ==
    /\ max_iter \in 0..MaxIter
    /\ router \in Routers
    /\ history \in InitialHistories
    /\ kv = EmptyMap
    /\ pool_pc = "start"
    /\ call_count = 0
    /\ last_result = PyNone
    /\ current_input = <<>>
    /\ pool_outcome = PyNone
    /\ AgentIdle /\ ParseIdle /\ ToolIdle /\ RouterIdle
    /\ GroqIdle
    /\ trace = <<>>

\* Mutant of LoopContinues: the ceiling is off by one.
LoopContinues_le == call_count <= max_iter

\* pool.py:31: while call_count < self.max_iter
LoopContinues == call_count < max_iter

\* Mutant of Terminates: only a missing route ends the run, a route without a
\* next agent is resolved like any other.
Terminates_route_only(route) == route = PyNone

\* pool.py:34: `not route or route.next_agent_name is None`
Terminates(route) == route = PyNone \/ route.next_agent_name = PyNone

\* Mutant of get: a name the registry lacks falls back to an agent of the pool.
get_fallback(registry, key) ==
    IF key.t = "str" /\ key.v \in DOMAIN registry THEN registry[key.v]
    ELSE registry["A"]

\* pool.py:37: self.agents_dict.get(name), None for a key the dict lacks.
get(registry, key) ==
    IF key.t = "str" /\ key.v \in DOMAIN registry THEN registry[key.v] ELSE PyNone

\* Mutant of PoolStart: every run begins with an empty history.
PoolStart_fresh ==
    /\ pool_pc = "start"
    /\ history' = add_message(<<>>, "user", UserInput, PyNone)
    /\ last_result' = PyNone
    /\ call_count' = 0
    /\ current_input' = UserInput
    /\ pool_pc' = "loop"
    /\ UNCHANGED <<max_iter, router, kv, pool_outcome, agentVars, parseVars,
                   toolVars, rrVars, groqVars, trace>>

\* pool.py:25-29
PoolStart ==
    /\ pool_pc = "start"
    /\ history' = add_message(history, "user", UserInput, PyNone)
    /\ last_result' = PyNone
    /\ call_count' = 0
    /\ current_input' = UserInput
    /\ pool_pc' = "loop"
    /\ UNCHANGED <<max_iter, router, kv, pool_outcome, agentVars, parseVars,
                   toolVars, rrVars, groqVars, trace>>

\* pool.py:31: the loop ends at max_iter.
PoolExhausted ==
    /\ pool_pc = "loop"
    /\ ~LoopContinues
    /\ pool_pc' = "final"
    /\ UNCHANGED <<max_iter, router, history, kv, call_count, last_result,
                   current_input, pool_outcome, agentVars, parseVars, toolVars,
                   rrVars, groqVars, trace>>

\* pool.py:33-43 and agent.py:54-60: the router is asked; the run ends, fails on
\* an unknown name, or the agent named starts its run on the current input.
PoolRoute ==
    /\ pool_pc = "loop"
    /\ LoopContinues
    /\ \E route \in RouterAnswers(router, call_count) :
          LET asked == [e |-> "router", call_count |-> call_count,
                        last_result |-> last_result, route |-> route]
          IN
          IF Terminates(route)
          THEN /\ pool_pc' = "final"
               /\ trace' = Append(trace, asked)
               /\ UNCHANGED <<pool_outcome, agentVars>>
          ELSE IF get(agents_dict, route.next_agent_name) = PyNone
          THEN /\ pool_pc' = "done"
               /\ pool_outcome' = [kind |-> "raise",
                                   error |-> "ValueError: unknown agent"]
               /\ trace' = Append(trace, asked)
               /\ UNCHANGED agentVars
          ELSE LET a == get(agents_dict, route.next_agent_name)
                   memory == run_memory(temporary_memory, current_input)
               IN  /\ pool_pc' = "running"
                   /\ agent' = a.name
                   /\ temporary_memory' = memory
                   /\ prompt' = _build_initial_prompt(a, memory)
                   /\ step' = 0
                   /\ response' = <<>>
                   /\ agent_outcome' = PyNone
                   /\ agent_pc' = "generate"
                   /\ trace' = trace \o <<asked, [e |-> "agent.run", agent |-> a.name,
                                                  input |-> current_input]>>
                   /\ UNCHANGED pool_outcome
    /\ UNCHANGED <<max_iter, router, history, kv, call_count, last_result,
                   current_input, parseVars, toolVars, rrVars, groqVars>>
    /\ UNCHANGED overlap

\* Mutant of PoolRecord: the output is recorded but the next agent is run on
\* the input of the one before.
PoolRecord_input_kept ==
    /\ pool_pc = "running" /\ agent_pc = "returned"
    /\ LET output == agent_outcome.value IN
       /\ history' = add_message(history, "assistant", str(output), PyStr(agent))
       /\ last_result' = [agent |-> agent, output |-> output]
    /\ call_count' = call_count + 1
    /\ pool_pc' = "loop"
    /\ agent_pc' = "idle"
    /\ UNCHANGED <<max_iter, router, kv, pool_outcome, agent, temporary_memory, step,
                   prompt, response, agent_outcome, parseVars, toolVars, rrVars, groqVars,
                   trace, current_input>>
    /\ UNCHANGED overlap

\* Mutant of PoolRecord: the output is also stored in the key-value store.
PoolRecord_output_stored ==
    /\ pool_pc = "running" /\ agent_pc = "returned"
    /\ LET output == agent_outcome.value IN
       /\ history' = add_message(history, "assistant", str(output), PyStr(agent))
       /\ last_result' = [agent |-> agent, output |-> output]
       /\ current_input' = str(output)
       /\ kv' = set(kv, "last", PyStr(agent))
    /\ call_count' = call_count + 1
    /\ pool_pc' = "loop"
    /\ agent_pc' = "idle"
    /\ UNCHANGED <<max_iter, router, pool_outcome, agent, temporary_memory, step,
                   prompt, response, agent_outcome, parseVars, toolVars, rrVars, groqVars,
                   trace>>
    /\ UNCHANGED overlap

\* Mutant of PoolRecord: last_result is never updated.
PoolRecord_last_kept ==
    /\ pool_pc = "running" /\ agent_pc = "returned"
    /\ LET output == agent_outcome.value IN
       /\ history' = add_message(history, "assistant", str(output), PyStr(agent))
       /\ current_input' = str(output)
    /\ call_count' = call_count + 1
    /\ pool_pc' = "loop"
    /\ agent_pc' = "idle"
    /\ UNCHANGED <<max_iter, router, kv, pool_outcome, agent, temporary_memory, step,
                   prompt, response, agent_outcome, parseVars, toolVars, rrVars, groqVars,
                   trace, last_result>>
    /\ UNCHANGED overlap

\* pool.py:45-53: the output is recorded and becomes the next input.
PoolRecord ==
    /\ pool_pc = "running" /\ agent_pc = "returned"
    /\ LET output == agent_outcome.value IN
       /\ history' = add_message(history, "assistant", str(output), PyStr(agent))
       /\ last_result' = [agent |-> agent, output |-> output]
       /\ current_input' = str(output)
    /\ call_count' = call_count + 1
    /\ pool_pc' = "loop"
    /\ agent_pc' = "idle"
    /\ UNCHANGED <<max_iter, router, kv, pool_outcome, agent, temporary_memory, step,
                   prompt, response, agent_outcome, parseVars, toolVars, rrVars, groqVars,
                   trace>>
    /\ UNCHANGED overlap

\* Mutant of PoolAgentRaised: the error of the agent is recorded as its
\* output and the loop goes on.
PoolAgentRaised_recorded ==
    /\ pool_pc = "running" /\ agent_pc = "raised"
    /\ history' = add_message(history, "assistant", <<Word(agent_outcome.error)>>,
                              PyStr(agent))
    /\ call_count' = call_count + 1
    /\ pool_pc' = "loop"
    /\ agent_pc' = "idle"
    /\ UNCHANGED <<max_iter, router, kv, last_result, pool_outcome,
                   current_input, agent, temporary_memory, step, prompt, response,
                   agent_outcome, parseVars, toolVars, rrVars, groqVars, trace>>
    /\ UNCHANGED overlap

\* pool.py:43: what agent.run raises leaves Pool.run as it is.
PoolAgentRaised ==
    /\ pool_pc = "running" /\ agent_pc = "raised"
    /\ pool_outcome' = agent_outcome
    /\ pool_pc' = "done"
    /\ agent_pc' = "idle"
    /\ UNCHANGED <<max_iter, router, history, kv, call_count, last_result,
                   current_input, agent, temporary_memory, step, prompt, response,
                   agent_outcome, parseVars, toolVars, rrVars, groqVars, trace>>
    /\ UNCHANGED overlap

\* pool.py:55-56
PoolFinal ==
    /\ pool_pc = "final"
    /\ pool_outcome' = [kind |-> "return", value |-> final_result(history)]
    /\ pool_pc' = "done"
    /\ UNCHANGED <<max_iter, router, history, kv, call_count, last_result,
                   current_input, agentVars, parseVars, toolVars, rrVars, groqVars, trace>>

Next ==
    \/ PoolStart \/ PoolExhausted \/ PoolRoute \/ PoolRecord \/ PoolAgentRaised
    \/ PoolFinal
    \/ AgentGenerate \/ ParseStrict \/ ParseFenced
    \/ AgentFinal \/ AgentUnknownTool \/ AgentRunTool
    \/ ToolValidate \/ ToolCall \/ AgentToolRaised \/ AgentAfterTool

Spec == Init /\ [][Next]_vars

----------------------------------------------------------------------------
(* SpecRuns: Pool.run called again and again on one Pool                    *)

\* The Pool.run calls made so far on the pool: each began with its user message.
RunsStarted ==
    Cardinality({k \in 1..Len(history) :
                    history[k] = [role |-> "user", content |-> UserInput,
                                  agent |-> PyNone]})

\* The pools that are run again: one that invokes no agent and one that
\* invokes at most one a run.
RunIters == {0, 1}

\* Their routers: one that may answer anything and a round-robin one.
RunRouters ==
    {r \in Routers : r.kind = "any" \/ r.names = <<"A", "B">>}

InitRuns ==
    /\ max_iter \in RunIters
    /\ router \in RunRouters
    /\ history \in InitialHistories
    /\ kv \in InitialStores
    /\ pool_pc = "start"
    /\ call_count = 0
    /\ last_result = PyNone
    /\ current_input = <<>>
    /\ pool_outcome = PyNone
    /\ AgentIdle /\ ParseIdle /\ ToolIdle /\ RouterIdle
    /\ GroqIdle
    /\ trace = <<>>

\* pool.py:24: the caller calls run again once the call before it is over; the
\* Pool object, its state included, is the same (pool.py:22). The trace is
\* that of the call under way.
PoolRunAgain ==
    /\ pool_pc = "done"
    /\ RunsStarted < MaxRuns
    /\ pool_pc' = "start"
    /\ pool_outcome' = PyNone
    /\ trace' = <<>>
    /\ UNCHANGED <<max_iter, router, history, kv, call_count, last_result,
                   current_input, agentVars, parseVars, toolVars, rrVars, groqVars>>

NextRuns == Next \/ PoolRunAgain

SpecRuns == InitRuns /\ [][NextRuns]_vars

----------------------------------------------------------------------------
(* SpecAgent: Agent.run called directly, outside any pool                   *)

\* What the caller may give as input_data (a str): a plain text, or the JSON
\* text of a single-tool request.
AgentInputs == {UserInput, SingleText("echo", "hi")}

InitAgent ==
    /\ agent \in DOMAIN agents_dict
    /\ agent_pc = "start"
    /\ temporary_memory = <<>>
    /\ step = 0
    /\ prompt = PyNone
    /\ response = <<>>
    /\ agent_outcome = PyNone
    /\ overlap = [r \in RunIds |-> NoRun]
    /\ ParseIdle /\ ToolIdle /\ RouterIdle /\ PoolIdle
    /\ GroqIdle
    /\ trace = <<>>

\* agent.py:53-60: the memory is seeded with the input and the first prompt
\* built; the input is looked at no further.
AgentStart ==
    /\ agent_pc = "start"
    /\ \E input_data \in AgentInputs :
          LET memory == run_memory(temporary_memory, input_data) IN
          /\ temporary_memory' = memory
          /\ prompt' = _build_initial_prompt(Self, memory)
          /\ trace' = Append(trace, [e |-> "agent.run", agent |-> agent,
                                     input |-> input_data])
    /\ step' = 0
    /\ agent_pc' = "generate"
    /\ UNCHANGED <<agent, response, agent_outcome, overlap, parseVars, toolVars,
                   rrVars, groqVars, poolVars>>

NextAgent ==
    \/ AgentStart \/ AgentGenerate \/ ParseStrict \/ ParseFenced
    \/ AgentFinal \/ AgentUnknownTool \/ AgentRunTool
    \/ ToolValidate \/ ToolCall \/ AgentToolRaised \/ AgentAfterTool

SpecAgent == InitAgent /\ [][NextAgent]_vars

----------------------------------------------------------------------------
(* SpecSteps: Agent.run of every agent, the one that never stops included,  *)
(* with a model that answers and tools that are called whenever asked       *)

InitSteps ==
    /\ agent \in DOMAIN Agents
    /\ agent_pc = "start"
    /\ temporary_memory = <<>>
    /\ step = 0
    /\ prompt = PyNone
    /\ response = <<>>
    /\ agent_outcome = PyNone
    /\ overlap = [r \in RunIds |-> NoRun]
    /\ ParseIdle /\ ToolIdle /\ RouterIdle /\ PoolIdle
    /\ GroqIdle
    /\ trace = <<>>

\* agent.py:70: tool_call = self._parse_tool_call(response), as one step.
AgentParse ==
    /\ agent_pc = "parsing" /\ parse_pc = "strict"
    /\ parse_result' = Parsed[llm_output]
    /\ parse_pc' = "done"
    /\ UNCHANGED llm_output
    /\ UNCHANGED <<toolVars, rrVars, groqVars, poolVars, agentVars, trace>>

NextSteps ==
    \/ AgentStart \/ AgentGenerate \/ AgentParse
    \/ AgentFinal \/ AgentUnknownTool \/ AgentRunTool
    \/ ToolValidate \/ ToolCall \/ AgentToolRaised \/ AgentAfterTool

\* Agent.run is sequential code: a statement that can run does run.
SpecSteps == InitSteps /\ [][NextSteps]_vars /\ WF_vars(NextSteps)

----------------------------------------------------------------------------
(* SpecOverlap: Agent.run calls on one Agent object that overlap, started   *)
(* from two threads or by a tool callable that runs the agent again. The    *)
(* memory is the attribute self.temporary_memory of the object, step,       *)
(* response and the tool output are locals of each call; a call takes one   *)
(* step at a time, between two steps of a call the other may take any.      *)

\* What each of the calls is given as its input.
RunInputs == <<UserInput, <<Word("Again")>>>>

\* What the model may answer a call.
OverlapResponses == {<<Word("Sure")>>, SingleText("echo", "hi")}

\* Everything but the memory and the calls.
OverlapFrame ==
    <<parseVars, toolVars, rrVars, groqVars, poolVars, agent, agent_pc, step, prompt,
      response, agent_outcome, trace>>

InitOverlap ==
    /\ overlap = [r \in RunIds |-> [NoRun EXCEPT !.pc = "reset", !.input = RunInputs[r]]]
    /\ agent \in DOMAIN agents_dict
    /\ agent_pc = "idle"
    /\ temporary_memory = <<>>
    /\ step = 0
    /\ prompt = PyNone
    /\ response = <<>>
    /\ agent_outcome = PyNone
    /\ ParseIdle /\ ToolIdle /\ RouterIdle /\ PoolIdle
    /\ GroqIdle
    /\ trace = <<>>

\* agent.py:54: self.temporary_memory = []
OverlapReset(r) ==
    /\ overlap[r].pc = "reset"
    /\ temporary_memory' = <<>>
    /\ overlap' = [overlap EXCEPT ![r].pc = "seed"]
    /\ UNCHANGED OverlapFrame

\* agent.py:56-60: the user message is appended to whatever list the attribute
\* now names.
OverlapSeed(r) ==
    /\ overlap[r].pc = "seed"
    /\ temporary_memory' = _add_to_memory(temporary_memory, "user", overlap[r].input)
    /\ overlap' = [overlap EXCEPT
                      ![r].pc = "generate",
                      ![r].appended = _add_to_memory(<<>>, "user", overlap[r].input)]
    /\ UNCHANGED OverlapFrame

\* agent.py:64-66: one model turn.
OverlapGenerate(r) ==
    /\ overlap[r].pc = "generate"
    /\ \E answer \in OverlapResponses :
          overlap' = [overlap EXCEPT ![r].pc = "record",
                                     ![r].step = @ + 1,
                                     ![r].response = answer]
    /\ UNCHANGED <<temporary_memory, OverlapFrame>>

\* agent.py:68: the response is appended.
OverlapRecord(r) ==
    /\ overlap[r].pc = "record"
    /\ temporary_memory' =
           _add_to_memory(temporary_memory, "assistant", overlap[r].response)
    /\ overlap' = [overlap EXCEPT
                      ![r].pc = "parse",
                      ![r].appended = _add_to_memory(@, "assistant", overlap[r].response)]
    /\ UNCHANGED OverlapFrame

\* agent.py:70-76 and 109-111: the response is parsed; a final answer is
\* returned, an unknown tool raises, a registered one is about to run.
OverlapParse(r) ==
    /\ overlap[r].pc = "parse"
    /\ LET tool_call == _parse_tool_call(overlap[r].response) IN
       overlap' =
           IF tool_call = PyNone
           THEN [overlap EXCEPT
                    ![r].pc = "returned",
                    ![r].outcome = [kind |-> "return", value |-> overlap[r].response]]
           ELSE IF ~Registered(Self, tool_call.v.tool)
           THEN [overlap EXCEPT
                    ![r].pc = "raised",
                    ![r].outcome = [kind |-> "raise",
                                    error |-> "ValueError: tool not found"]]
           ELSE [overlap EXCEPT ![r].pc = "tool"]
    /\ UNCHANGED <<temporary_memory, OverlapFrame>>

\* agent.py:78: Tool.run, the parameter check and then the callable (which
\* may itself be where the other call is made from).
OverlapTool(r) ==
    /\ overlap[r].pc = "tool"
    /\ LET tool_call == _parse_tool_call(overlap[r].response)
           check == CheckParameters(Self.tools[tool_call.v.tool.v].input_parameters,
                                    tool_call.v.args, 1)
       IN  IF check # "ok"
           THEN overlap' = [overlap EXCEPT
                               ![r].pc = "raised",
                               ![r].outcome = [kind |-> "raise", error |-> check]]
           ELSE \/ \E value \in CallableResults :
                      overlap' = [overlap EXCEPT ![r].pc = "entry",
                                                 ![r].output = value]
                \/ overlap' = [overlap EXCEPT
                                  ![r].pc = "raised",
                                  ![r].outcome =
                                      [kind |-> "raise",
                                       error |-> "RuntimeError: callable failed"]]
    /\ UNCHANGED <<temporary_memory, OverlapFrame>>

\* agent.py:81-85: the tool entry is appended.
OverlapEntry(r) ==
    /\ overlap[r].pc = "entry"
    /\ LET tool_call == _parse_tool_call(overlap[r].response)
           content == [name |-> tool_call.v.tool.v, args |-> tool_call.v.args,
                       output |-> overlap[r].output]
       IN  /\ temporary_memory' = _add_to_memory(temporary_memory, "tool", content)
           /\ overlap' = [overlap EXCEPT
                             ![r].pc = "stop",
                             ![r].appended = _add_to_memory(@, "tool", content)]
    /\ UNCHANGED OverlapFrame

\* agent.py:87-107: the stop condition, on the memory as it now is.
OverlapStop(r) ==
    /\ overlap[r].pc = "stop"
    /\ overlap' =
           IF should_stop(Self.stop, overlap[r].step - 1, temporary_memory)
           THEN [overlap EXCEPT
                    ![r].pc = "returned",
                    ![r].outcome = [kind |-> "return",
                                    value |-> StoppedText(overlap[r].step)]]
           ELSE [overlap EXCEPT ![r].pc = "generate"]
    /\ UNCHANGED <<temporary_memory, OverlapFrame>>

NextOverlap ==
    \E r \in RunIds :
        \/ OverlapReset(r) \/ OverlapSeed(r) \/ OverlapGenerate(r) \/ OverlapRecord(r)
        \/ OverlapParse(r) \/ OverlapTool(r) \/ OverlapEntry(r) \/ OverlapStop(r)

SpecOverlap == InitOverlap /\ [][NextOverlap]_vars

----------------------------------------------------------------------------
(* Claims about the parser                                                  *)

\* The texts that are, as a whole, a JSON object with keys tool and args, each
\* with the object it denotes.
WholeRequests ==
    { [text |-> SingleText(n, a), value |-> SingleValue(n, a)] :
          n \in {"echo", "nope"}, a \in {"hi", "yo"} }
    \cup { [text |-> ReorderedText(n), value |-> ReorderedValue(n)] :
              n \in {"echo", "nope"} }

\* A text with optional whitespace around it.
Padded(text) == {text, <<Ws>> \o text, text \o <<Ws>>, <<Ws>> \o text \o <<Ws>>}

\* Plain natural-language text: words and whitespace only.
IsPlain(text) == \A i \in 1..Len(text) : text[i].k \in {"word", "ws"}

\* The parallel requests, whole or fenced, among the texts.
ParallelRequests ==
    { ParallelText(<<a, b>>) : a \in {"echo", "nope"}, b \in {"echo", "nope"} }

\* C7: the parser returns the single-tool request for every text that is as a
\* whole a JSON object with keys tool and args, and None for every plain
\* natural-language text.
C7_SingleParsedPlainIsNone ==
    parse_pc = "done" =>
        /\ \A r \in WholeRequests :
               llm_output \in Padded(r.text) => parse_result = r.value
        /\ IsPlain(llm_output) => parse_result = PyNone

C7_Witness ==
    /\ parse_pc = "done"
    /\ llm_output = <<Ws>> \o SingleText("echo", "hi")
    /\ parse_result = SingleValue("echo", "hi")

\* C8: a text that is a JSON object with key tools holding {tool, args} objects
\* is parsed as a parallel-tool request: the parser does not return None for it.
C8_ParallelParsed ==
    (parse_pc = "done" /\ \E p \in ParallelRequests : llm_output \in Padded(p))
        => parse_result # PyNone

\* C9: a fenced block that fails to parse or lacks the tool/args keys does not
\* prevent a later, valid fenced block of the same response from being
\* recognised as the tool request.
C9_LaterFencedBlockUsed ==
    (/\ parse_pc = "done"
     /\ \E bad \in {Fenced(OtherText), Fenced(BrokenText)} :
            llm_output = bad \o Fenced(SingleText("echo", "hi")))
        => parse_result = SingleValue("echo", "hi")

----------------------------------------------------------------------------
(* Claims about the router, the tool, the agent loop and the pool           *)

\* The positions of the trace holding an event of kind e.
Events(e) == {i \in 1..Len(trace) : trace[i].e = e}

\* C2: round_robin_router(names) returns names[call_count] for every call_count
\* below len(names) and signals termination for every call_count from
\* len(names) on, an empty list included; over [A, B, C] it selects A, B, C
\* for 0, 1, 2 and terminates at 3.
C2_RoundRobin ==
    rr_pc = "done" =>
        /\ rr_call_count < Len(agent_names)
               => rr_result = RouterResult(PyStr(agent_names[rr_call_count + 1]))
        /\ rr_call_count >= Len(agent_names) => rr_result = RouterResult(PyNone)
        /\ agent_names = <<"A", "B", "C">> =>
               rr_result.next_agent_name =
                   CASE rr_call_count = 0 -> PyStr("A")
                     [] rr_call_count = 1 -> PyStr("B")
                     [] rr_call_count = 2 -> PyStr("C")
                     [] OTHER -> PyNone

C2_Witness ==
    /\ rr_pc = "done"
    /\ agent_names = <<"A", "B", "C">>
    /\ rr_call_count = 3
    /\ rr_result = RouterResult(PyNone)

\* A declared parameter the mapping lacks, or holds with a value that is no
\* instance of its type (a bool is an int in Python).
ViolatesContract(tl, args) ==
    \E i \in 1..Len(tl.input_parameters) :
        LET key == tl.input_parameters[i][1]
            ty == tl.input_parameters[i][2]
        IN  \/ key \notin DOMAIN args.v
            \/ (args.v[key].t # ty /\ ~(args.v[key].t = "bool" /\ ty = "int"))

\* C3: when the argument mapping lacks a declared parameter or gives one a
\* value of the wrong type, Tool.run raises a parameter error and the
\* callable is not invoked even once; nothing turns the error into a value.
C3_ParameterErrorBeforeCall ==
    ViolatesContract(tool, tool_args) =>
        /\ tool_pc \in {"validate", "raised"}
        /\ Events("callable") = {}
        /\ tool_pc = "raised" =>
               /\ tool_outcome.kind = "raise"
               /\ tool_outcome.error \in {"ValueError: missing parameter",
                                          "TypeError: parameter type"}

C3_Witness ==
    /\ tool_pc = "raised"
    /\ tool.input_parameters = << <<"text", "str">>, <<"times", "int">> >>
    /\ tool_args = PyDict([text |-> PyStr("hi"), times |-> PyStr("hi")])
    /\ tool_outcome.error = "TypeError: parameter type"

\* Every answer of the router so far named an agent of the registry.
RouterAlwaysNamedRegistered ==
    \A i \in Events("router") :
        /\ trace[i].route # PyNone
        /\ trace[i].route.next_agent_name # PyNone
        /\ trace[i].route.next_agent_name.v \in DOMAIN agents_dict

\* C1: with a router that always names a registered agent and agents that
\* never fail, Pool.run performs exactly max_iter agent invocations and then
\* returns normally; it never performs more than max_iter.
C1_ExactlyMaxIterInvocations ==
    /\ Cardinality(Events("agent.run")) <= max_iter
    /\ (pool_pc = "done" /\ RouterAlwaysNamedRegistered /\ Events("agent.raise") = {})
           => /\ pool_outcome.kind = "return"
              /\ Cardinality(Events("agent.run")) = max_iter

C1_Witness ==
    /\ pool_pc = "done"
    /\ max_iter = MaxIter
    /\ router.kind = "any"
    /\ RouterAlwaysNamedRegistered
    /\ pool_outcome.kind = "return"
    /\ Cardinality(Events("agent.run")) = MaxIter


\* A response that the parser reads as a request for a tool that agent a has
\* not registered.
NamesUnknownTool(a, r) ==
    /\ Parsed[r] # PyNone
    /\ ~Registered(agents_dict[a], Parsed[r].v.tool)

\* C4: a single-tool request naming a tool that is not in the registry makes
\* Agent.run raise at once: the raise is the next thing that happens (no
\* callable, no stop condition, no model turn), nothing follows it, and the
\* memory then ends with the request, no tool entry after it.
C4_UnknownToolIsFatal ==
    /\ \A i \in Events("generate") :
           (NamesUnknownTool(trace[i].agent, trace[i].response) /\ i < Len(trace))
              => /\ trace[i + 1] = [e |-> "agent.raise",
                                    error |-> "ValueError: tool not found"]
                 /\ i + 1 = Len(trace)
                 /\ temporary_memory[Len(temporary_memory)] =
                        [role |-> "assistant", content |-> trace[i].response]
    /\ (agent_pc \in {"generate", "tool", "returned"} /\ step > 0)
           => ~NamesUnknownTool(agent, response)

C4_Witness ==
    /\ agent_pc = "raised"
    /\ agent_outcome.error = "ValueError: tool not found"
    /\ response = SingleText("nope", "hi")
    /\ step = 2

\* C5: when the stop condition signals stop after a tool execution, Agent.run
\* returns at once, and what it returns is the stop indicator of its step,
\* no model response; no model turn follows in that run.
C5_StopReturnsIndicator ==
    \A i \in Events("should_stop") :
        trace[i].result =>
            /\ i < Len(trace)
            /\ trace[i + 1] = [e |-> "agent.return",
                               value |-> StoppedText(trace[i].step + 1)]
            /\ \A g \in Events("generate") :
                   (g < i /\ \A r \in Events("agent.run") : ~(g < r /\ r < i))
                       => trace[i + 1].value # trace[g].response
            /\ (agent_pc # "idle" /\ i + 1 = Len(trace)) =>
                   /\ agent_pc = "returned"
                   /\ agent_outcome = [kind |-> "return",
                                       value |-> StoppedText(step)]

C5_Witness ==
    /\ agent_pc = "returned"
    /\ agent = "A"
    /\ step = 2
    /\ agent_outcome.value = StoppedText(2)

\* C6: a response that is not recognised as a tool request ends the loop on
\* that turn: the next thing that happens is the return of the raw response
\* text, with no callable invoked and no stop condition evaluated between.
C6_UnrecognisedIsFinal ==
    \A i \in Events("generate") :
        (Parsed[trace[i].response] = PyNone /\ i < Len(trace))
            => trace[i + 1] = [e |-> "agent.return", value |-> trace[i].response]

C6_Witness ==
    /\ agent_pc = "returned"
    /\ step = 2
    /\ response = <<Word("Sure")>>
    /\ agent_outcome = [kind |-> "return", value |-> <<Word("Sure")>>]
    /\ trace[Len(trace) - 1].e = "generate"

\* C10: Pool.run returns the content of the newest assistant message of the
\* history, or an empty result when the history holds no assistant message.
C10_FinalIsNewestAssistant ==
    (pool_pc = "done" /\ pool_outcome.kind = "return") =>
        LET idx == {i \in 1..Len(history) : history[i].role = "assistant"} IN
        IF idx = {} THEN pool_outcome.value = <<>>
        ELSE \E i \in idx :
                /\ \A j \in idx : j <= i
                /\ pool_outcome.value = history[i].content

C10_Witness ==
    /\ pool_pc = "done"
    /\ pool_outcome.kind = "return"
    /\ Len(history) = 5
    /\ history[1].content = <<Word("Earlier")>>
    /\ history[4].content = <<Word("Sure")>>
    /\ history[5].content = ParallelText(<<"echo", "echo">>)
    /\ pool_outcome.value = ParallelText(<<"echo", "echo">>)

----------------------------------------------------------------------------
(* Claims about the sequencing of a pool run                                *)

\* The greatest element of a non-empty set of positions.
Last(S) == CHOOSE i \in S : \A j \in S : j <= i

\* C11: in a pool run the first invoked agent receives the pool's user input,
\* and every later invoked agent receives exactly the stringified output of
\* the agent invoked immediately before it.
C11_OutputsChained ==
    \A i \in Events("agent.run") :
        LET runs == {j \in Events("agent.run") : j < i}
            returns == {j \in Events("agent.return") : j < i}
        IN  IF runs = {} THEN trace[i].input = UserInput
            ELSE /\ returns # {}
                 /\ Last(runs) < Last(returns)
                 /\ trace[i].input = str(trace[Last(returns)].value)

C11_Witness ==
    /\ Cardinality(Events("agent.run")) = 2
    /\ trace[Last(Events("agent.run"))].input = <<Word("Sure")>>
    /\ trace[Last(Events("agent.run"))].input # UserInput

\* An answer of the router that names an agent the registry lacks.
NamesUnregistered(route) ==
    /\ route # PyNone
    /\ route.next_agent_name # PyNone
    /\ route.next_agent_name.v \notin DOMAIN agents_dict

\* The assistant messages this run has added to the history: those after the
\* user message the run began with.
Recorded ==
    {k \in 1..Len(history) :
        /\ history[k].role = "assistant"
        /\ \E u \in 1..(k - 1) :
               history[u] = [role |-> "user", content |-> UserInput, agent |-> PyNone]}

\* C12: when the router names an agent that is not in the registry, Pool.run
\* fails with a configuration error on that iteration: nothing happens after
\* that answer of the router (no agent is run, the router is not asked again)
\* and no assistant message is recorded for it.
C12_UnknownAgentIsFatal ==
    \A i \in Events("router") :
        NamesUnregistered(trace[i].route) =>
            /\ i = Len(trace)
            /\ pool_pc = "done"
            /\ pool_outcome = [kind |-> "raise", error |-> "ValueError: unknown agent"]
            /\ Cardinality(Events("agent.run")) = trace[i].call_count
            /\ Cardinality(Recorded) = trace[i].call_count

C12_Witness ==
    /\ pool_pc = "done"
    /\ pool_outcome = [kind |-> "raise", error |-> "ValueError: unknown agent"]
    /\ router = [kind |-> "round_robin", names |-> <<"A", "C">>]
    /\ call_count = 1
    /\ Cardinality(Events("agent.run")) = 1

\* C13: when the router returns no next agent at call_count k, the pool run
\* terminates having performed exactly k agent invocations: nothing happens
\* after that answer (no agent is run, the router is not asked again) and the
\* run returns.
C13_NoNextAgentTerminates ==
    \A i \in Events("router") :
        (trace[i].route = PyNone \/ trace[i].route = RouterResult(PyNone)) =>
            /\ i = Len(trace)
            /\ pool_pc \in {"final", "done"}
            /\ pool_pc = "done" => pool_outcome.kind = "return"
            /\ trace[i].call_count = call_count
            /\ Cardinality(Events("agent.run")) = trace[i].call_count

C13_Witness ==
    /\ pool_pc = "done"
    /\ pool_outcome.kind = "return"
    /\ max_iter = 2
    /\ call_count = 1
    /\ trace[Len(trace)].e = "router"
    /\ trace[Len(trace)].route = RouterResult(PyNone)
    /\ Cardinality(Events("agent.run")) = 1

----------------------------------------------------------------------------
(* Claims about the error policy and the retries of a tool                  *)

\* A Tool.run that has ended, the callable having failed every time it was
\* invoked (and invoked at least once).
PermanentlyFailed ==
    /\ tool_pc \in {"returned", "raised"}
    /\ tool_options # PyNone
    /\ Events("callable") # {}
    /\ \A i \in Events("callable") : trace[i].raised

\* C14: a tool with on_error = "return_none", run with a callable that fails
\* every time, invokes the callable exactly max_retries + 1 times and then
\* returns None; Tool.run does not raise.
C14_ReturnNoneAfterRetries ==
    (PermanentlyFailed /\ tool_options.on_error = "return_none") =>
        /\ tool_outcome = [kind |-> "return", value |-> PyNone]
        /\ Cardinality(Events("callable")) = tool_options.max_retries + 1

\* C15: a tool with on_error = "raise", run with a callable that fails every
\* time, raises the fault after exactly max_retries + 1 invocations of the
\* callable.
C15_RaiseAfterRetries ==
    (PermanentlyFailed /\ tool_options.on_error = "raise") =>
        /\ tool_outcome = [kind |-> "raise", error |-> "RuntimeError: callable failed"]
        /\ Cardinality(Events("callable")) = tool_options.max_retries + 1

RECURSIVE Pow2(_)
Pow2(n) == IF n = 0 THEN 1 ELSE 2 * Pow2(n - 1)

RECURSIVE TotalWait(_)
\* The seconds waited in the first i events of the trace.
TotalWait(i) ==
    IF i = 0 THEN 0
    ELSE (IF trace[i].e = "sleep" THEN trace[i].seconds ELSE 0) + TotalWait(i - 1)

\* C16: for a callable that fails every time, the wait before the k-th retry
\* is retry_delay * 2^(k-1) with retry_backoff and retry_delay without; with
\* retry_delay = 1 and max_retries = 3 the waits total 7 with backoff and 3
\* without.
C16_BackoffWaits ==
    PermanentlyFailed =>
        /\ \A k \in 1..tool_options.max_retries :
               \E i \in Events("sleep") :
                  /\ Cardinality({j \in Events("sleep") : j < i}) = k - 1
                  /\ trace[i].seconds =
                         IF tool_options.retry_backoff
                         THEN tool_options.retry_delay * Pow2(k - 1)
                         ELSE tool_options.retry_delay
        /\ (tool_options.retry_delay = 1 /\ tool_options.max_retries = 3) =>
               TotalWait(Len(trace)) = IF tool_options.retry_backoff THEN 7 ELSE 3

----------------------------------------------------------------------------
(* Claims about parallel-tool requests                                      *)

\* The entries of a text that is as a whole a parallel-tool request
\* {"tools": [{tool, args}, ...]}, in the order of the request; none otherwise.
Entries(text) ==
    LET r == json_loads(strip(text)) IN
    IF /\ r.ok
       /\ r.val.t = "dict"
       /\ HasKey(r.val, "tools")
       /\ r.val.v["tools"].t = "list"
       /\ \A k \in 1..Len(r.val.v["tools"].v) : IsToolRequest(r.val.v["tools"].v[k])
    THEN r.val.v["tools"].v
    ELSE <<>>

\* The entries of each answer of the model.
Batch == [r \in ModelResponses |-> Entries(r)]

\* C17: in a parallel-tool request, an entry naming a tool that is not in the
\* registry does not abort the run: the next thing that happens after such a
\* response is the execution of a sibling entry that names a registered tool,
\* and every such sibling is executed before the agent's next turn or return.
C17_UnknownEntryIsolated ==
    \A i \in Events("generate") :
        LET b == Batch[trace[i].response]
            a == agents_dict[trace[i].agent]
            known == {k \in 1..Len(b) : Registered(a, b[k].v.tool)}
            later == {j \in Events("generate") \cup Events("agent.return")
                               \cup Events("agent.raise") : j > i}
        IN  (/\ known # {}
             /\ \E k \in 1..Len(b) : ~Registered(a, b[k].v.tool)
             /\ later # {})
                => /\ trace[i + 1].e = "callable"
                   /\ \A k \in known :
                          \E c \in Events("callable") :
                             /\ i < c
                             /\ \A j \in later : c < j
                             /\ trace[c].tool = b[k].v.tool.v
                             /\ trace[c].args = b[k].v.args

\* C18: after a parallel-tool request of n entries, exactly n tool entries
\* follow the request in the memory, one per requested tool, in the order of
\* the request.
C18_BatchEntriesInOrder ==
    \A k \in 1..Len(temporary_memory) :
        (/\ temporary_memory[k].role = "assistant"
         /\ Batch[temporary_memory[k].content] # <<>>
         /\ \/ agent_pc \in {"returned", "generate"}
            \/ \E l \in (k + 1)..Len(temporary_memory) :
                   temporary_memory[l].role = "assistant")
            => LET b == Batch[temporary_memory[k].content]
                   n == Len(b)
               IN  /\ Len(temporary_memory) >= k + n
                   /\ \A j \in 1..n :
                          /\ temporary_memory[k + j].role = "tool"
                          /\ temporary_memory[k + j].content.name = b[j].v.tool.v
                   /\ Len(temporary_memory) > k + n
                          => temporary_memory[k + n + 1].role # "tool"

----------------------------------------------------------------------------
(* Claims about the outcomes of an agent run                                *)

\* The output schema and the retry ceiling an agent was created with, None for
\* an agent created without.
output_schema ==
    [ A |-> PyNone,
      B |-> [fields |-> << <<"score", "int">> >>, max_retries |-> 3] ]

\* schema.validate_or_coerce(raw): the text as a whole is a JSON object that
\* holds every field of the schema with a value of its type.
validate_or_coerce(schema, text) ==
    LET r == json_loads(strip(text)) IN
    IF r.ok /\ r.val.t = "dict" /\ CheckParameters(schema.fields, r.val, 1) = "ok"
    THEN [ok |-> TRUE, value |-> r.val]
    ELSE [ok |-> FALSE, value |-> PyNone]

\* The final answers (responses that are no tool request) the model has given
\* in the agent run that event i belongs to, up to event i.
FinalAnswersBefore(i) ==
    {g \in Events("generate") :
        /\ g <= i
        /\ \A r \in Events("agent.run") : ~(g < r /\ r < i)
        /\ Parsed[trace[g].response] = PyNone}

\* C19: an agent with an output schema returns a final answer only as the
\* coerced value of an answer that validates, never the raw text of one that
\* does not; it re-prompts the model after a failing answer at most its retry
\* ceiling times, and then raises a validation failure.
C19_SchemaValidatedFinalAnswer ==
    \A j \in Events("agent.return") \cup Events("agent.raise") :
        LET g == trace[j - 1]
            schema == output_schema[g.agent]
        IN  (g.e = "generate" /\ Parsed[g.response] = PyNone /\ schema # PyNone) =>
               /\ Cardinality(FinalAnswersBefore(j)) <= schema.max_retries + 1
               /\ IF validate_or_coerce(schema, g.response).ok
                  THEN trace[j] = [e |-> "agent.return",
                                   value |-> validate_or_coerce(schema, g.response).value]
                  ELSE /\ trace[j] = [e |-> "agent.raise",
                                      error |-> "ValueError: validation failed"]
                       /\ Cardinality(FinalAnswersBefore(j)) = schema.max_retries + 1

\* C20: a run that ended because the stop condition fired and a run that
\* ended with a final answer of the model never return the same value.
C20_StopDistinguishable ==
    \A i \in Events("agent.return") :
        \A j \in Events("agent.return") :
            (trace[i - 1].e = "should_stop" /\ trace[j - 1].e = "generate")
                => trace[i].value # trace[j].value

----------------------------------------------------------------------------
(* Claims about the memory of an agent run                                  *)

\* The events of the trace after the start of the latest Agent.run.
InRun(e) == {i \in Events(e) : i > Last(Events("agent.run"))}

\* C21: every Agent.run starts with a memory of exactly one entry, the user
\* message of that run; the memory of a run holds that entry and what the run
\* itself appended, and every prompt of the run renders entries of that
\* memory only, so nothing of an earlier run is in either.
C21_MemoryFreshPerRun ==
    Events("agent.run") # {} =>
        LET user == [role |-> "user",
                     content |-> trace[Last(Events("agent.run"))].input]
            n == Len(prompt.body)
        IN  /\ temporary_memory[1] = user
            /\ Len(temporary_memory) =
                   1 + Cardinality(InRun("generate")) + Cardinality(InRun("should_stop"))
            /\ (agent_pc = "generate" /\ step = 0) =>
                   /\ temporary_memory = <<user>>
                   /\ prompt = _build_initial_prompt(Self, <<user>>)
            /\ n <= Len(temporary_memory)
            /\ \/ prompt = _build_initial_prompt(Self, <<user>>)
               \/ prompt = follow_up_prompt(Self, SubSeq(temporary_memory, 1, n))

C21_Witness ==
    /\ Cardinality({i \in Events("agent.run") : trace[i].agent = "A"}) = 2
    /\ Events("should_stop") # {}
    /\ agent = "A" /\ agent_pc = "generate" /\ step = 0
    /\ Len(temporary_memory) = 1
    /\ temporary_memory[1].content = <<Word("Sure")>>

\* The calls that are under way: begun, and neither returned nor raised.
Active(r) == overlap[r].pc \in {"generate", "record", "parse", "tool", "entry", "stop"}

\* C22: when two runs of one Agent object overlap, the memory of each run
\* holds exactly what that run appended: no entry of the other run is in it
\* and none of its own is lost.
C22_MemoryPrivateToRun ==
    \A r \in RunIds : Active(r) => temporary_memory = overlap[r].appended

\* C23: an Agent.run whose input is a single-tool request naming a registered
\* tool with conforming arguments runs that tool on those arguments and
\* returns exactly its output.
C23_RequestInputReturnsToolOutput ==
    (/\ agent_pc \in {"returned", "raised"}
     /\ trace[1].input = SingleText("echo", "hi"))
        => /\ agent_pc = "returned"
           /\ \E c \in Events("callable") :
                  /\ trace[c].tool = "echo"
                  /\ trace[c].args = SingleValue("echo", "hi").v.args
                  /\ ~trace[c].raised
           /\ \E k \in 1..Len(temporary_memory) :
                  /\ temporary_memory[k].role = "tool"
                  /\ temporary_memory[k].content.output.t = "str"
                  /\ agent_outcome.value
                         \in {temporary_memory[k].content.output,
                              <<Word(temporary_memory[k].content.output.v)>>}

----------------------------------------------------------------------------
(* Claims about the exits and the bookkeeping of the agent loop             *)

\* The return at position j gives back the latest model response, which was
\* not a tool request.
ReturnsFinalAnswer(j) ==
    /\ trace[j - 1].e = "generate"
    /\ Parsed[trace[j - 1].response] = PyNone
    /\ trace[j].value = trace[j - 1].response

\* The return at position j gives back the stop indicator, the stop condition
\* having fired right after a tool ran.
ReturnsStopIndicator(j) ==
    /\ j > 2
    /\ trace[j - 1].e = "should_stop"
    /\ trace[j - 1].result
    /\ trace[j - 2].e = "callable"
    /\ ~trace[j - 2].raised
    /\ trace[j].value = StoppedText(Cardinality({g \in Events("generate") :
            /\ g < j
            /\ \A r \in Events("agent.run") : ~(g < r /\ r < j)}))

\* C24: every Agent.run that returns does so for exactly one of two reasons:
\* the latest model response was not a tool request and is the value
\* returned, or the stop condition fired right after a tool execution and the
\* stop indicator is the value returned.
C24_TwoReturningExits ==
    /\ \A j \in Events("agent.return") :
           /\ ReturnsFinalAnswer(j) \/ ReturnsStopIndicator(j)
           /\ ~(ReturnsFinalAnswer(j) /\ ReturnsStopIndicator(j))
    /\ agent_pc = "returned" =>
           /\ trace[Len(trace)].e = "agent.return"
           /\ agent_outcome = [kind |-> "return", value |-> trace[Len(trace)].value]

C24_Witness ==
    /\ \E j \in Events("agent.return") : ReturnsFinalAnswer(j)
    /\ \E j \in Events("agent.return") :
           ReturnsStopIndicator(j) /\ trace[j].value = StoppedText(2)
    /\ agent_pc = "returned"

\* The events of kind e that belong to the same agent run as event i and come
\* no later than it.
SameRunUpTo(e, i) ==
    {g \in Events(e) : g <= i /\ \A r \in Events("agent.run") : ~(g < r /\ r < i)}

\* C25: after each tool execution the stop condition is evaluated exactly
\* once; the step value it is given is the number of steps the run has taken
\* so far, the count the run reports in its "Stopped after N steps" indicator
\* when the condition fires, and the memory it is given already holds the
\* tool entry just appended.
C25_StopCheckedWithStepsTaken ==
    /\ \A c \in Events("callable") :
           (~trace[c].raised /\ c < Len(trace)) =>
               /\ trace[c + 1].e = "should_stop"
               /\ c + 1 < Len(trace) => trace[c + 2].e # "should_stop"
    /\ \A i \in Events("should_stop") :
           /\ trace[i - 1].e = "callable"
           /\ trace[i].step = Cardinality(SameRunUpTo("generate", i))
           /\ trace[i].memory = 1 + Cardinality(SameRunUpTo("generate", i))
                                  + Cardinality(SameRunUpTo("should_stop", i))
           /\ (trace[i].result /\ i < Len(trace)) =>
                  trace[i + 1] = [e |-> "agent.return",
                                  value |-> StoppedText(trace[i].step)]

----------------------------------------------------------------------------
(* Claims about the shared state of a pool run                              *)

\* The k-th position of a set of positions, counted from 1.
Nth(S, k) == CHOOSE i \in S : Cardinality({j \in S : j < i}) = k - 1

\* The user message a pool run begins with.
UserMessage == [role |-> "user", content |-> UserInput, agent |-> PyNone]

\* C26: after each agent invocation in a pool run exactly one message is
\* appended to the shared-state history, with role assistant, content equal to
\* the stringified agent output and agent field equal to the producing agent's
\* name; hence at every router call the number of assistant messages appended
\* during this run equals call_count, and call_count never exceeds max_iter.
C26_OneTaggedMessagePerInvocation ==
    pool_pc # "start" =>
        LET u == Len(history) - call_count
            pending == IF pool_pc = "running" /\ agent_pc = "returned" THEN 1 ELSE 0
        IN
        /\ call_count <= max_iter
        /\ u >= 1
        /\ history[u] = UserMessage
        /\ SubSeq(history, 1, u - 1) \in InitialHistories
        /\ Cardinality(Recorded) = call_count
        /\ Cardinality(Events("agent.return")) = call_count + pending
        /\ \A k \in 1..call_count :
               history[u + k] =
                   [role |-> "assistant",
                    content |-> str(trace[Nth(Events("agent.return"), k)].value),
                    agent |-> PyStr(trace[Nth(Events("agent.run"), k)].agent)]
        /\ \A i \in Events("router") :
               /\ trace[i].call_count = Cardinality({j \in Events("agent.return") : j < i})
               /\ trace[i].call_count < max_iter
               /\ i = Len(trace) => Cardinality(Recorded) = trace[i].call_count

C26_Witness ==
    /\ pool_pc = "loop"
    /\ call_count = 2
    /\ Len(history) = 5
    /\ history[4] = [role |-> "assistant", content |-> <<Word("Sure")>>,
                     agent |-> PyStr("A")]
    /\ history[5].agent = PyStr("B")
    /\ history[5].role = "assistant"

\* C27: on every pool iteration the router is called with call_count equal to
\* the number of agent invocations completed so far in this run, and with
\* last_result equal to None before the first invocation and thereafter equal
\* to {agent, output} of the immediately preceding invocation; the router is
\* called at most max_iter times per run and not at all when max_iter is 0.
C27_RouterArguments ==
    /\ Cardinality(Events("router")) <= max_iter
    /\ \A i \in Events("router") :
           LET runs == {j \in Events("agent.run") : j < i}
               returns == {j \in Events("agent.return") : j < i}
           IN
           /\ Cardinality(runs) = Cardinality(returns)
           /\ {j \in Events("agent.raise") : j < i} = {}
           /\ trace[i].call_count = Cardinality(returns)
           /\ trace[i].call_count = Cardinality({j \in Events("router") : j < i})
           /\ IF returns = {} THEN trace[i].last_result = PyNone
              ELSE /\ Last(runs) < Last(returns)
                   /\ trace[i].last_result =
                          [agent |-> trace[Last(runs)].agent,
                           output |-> trace[Last(returns)].value]

C27_Witness ==
    /\ max_iter = 2
    /\ Cardinality(Events("router")) = 2
    /\ trace[Last(Events("router"))].call_count = 1
    /\ trace[Last(Events("router"))].last_result =
           [agent |-> "A", output |-> <<Word("Sure")>>]

\* C28: during a pool run the shared-state history is append-only: every step
\* of the pool loop either leaves the history unchanged or appends one message
\* at its end; a message already in the history is never removed, reordered
\* or modified, and the first message appended by a run is that run's user
\* message with no agent tag.
C28_HistoryAppendOnly ==
    [][ /\ \/ history' = history
           \/ /\ Len(history') = Len(history) + 1
              /\ SubSeq(history', 1, Len(history)) = history
        /\ pool_pc = "start" => history' = history \o <<UserMessage>>
        /\ (pool_pc = "start" /\ history' # history) =>
               history'[Len(history')] = UserMessage
      ]_vars

C28_Witness ==
    /\ pool_pc = "done"
    /\ Len(history) = 5
    /\ SubSeq(history, 1, 2) \in InitialHistories
    /\ history[3] = UserMessage
    /\ history[5].role = "assistant"

----------------------------------------------------------------------------
(* Claims about the entries of the memory                                   *)

\* The positions of the memory holding an entry of a role.
Role(role) == {k \in 1..Len(temporary_memory) : temporary_memory[k].role = role}

C30_ToolEntryFollowsItsRequest ==
    Events("agent.run") # {} =>
        LET n == Len(temporary_memory)
            executed == {i \in InRun("callable") : ~trace[i].raised}
            pending == IF agent_pc = "tool" /\ tool_pc = "returned" THEN 1 ELSE 0
        IN
        /\ temporary_memory[1].role = "user"
        /\ \A k \in 2..n :
               temporary_memory[k].role = IF k % 2 = 0 THEN "assistant" ELSE "tool"
        /\ Cardinality(Role("tool")) + pending = Cardinality(executed)
        /\ \A k \in Role("tool") :
               LET request == Parsed[temporary_memory[k - 1].content]
                   call == trace[Nth(executed, (k - 1) \div 2)]
               IN  /\ temporary_memory[k - 1].role = "assistant"
                   /\ request # PyNone
                   /\ temporary_memory[k].content.name = request.v.tool.v
                   /\ temporary_memory[k].content.args = request.v.args
                   /\ call.tool = request.v.tool.v
                   /\ call.args = request.v.args
                   /\ temporary_memory[k].content.output \in CallableResults
        /\ temporary_memory[n].role = "tool" =>
               /\ tool_outcome.kind = "return"
               /\ temporary_memory[n].content.output = tool_outcome.value

C30_Witness ==
    /\ Len(temporary_memory) = 5
    /\ agent_pc = "returned"
    /\ temporary_memory[2].content = SingleText("echo", "hi")
    /\ temporary_memory[3].content.args = PyDict([text |-> PyStr("hi")])
    /\ temporary_memory[3].content.name = "echo"
    /\ temporary_memory[5].content.args = PyDict([text |-> PyStr("yo")])
    /\ temporary_memory[5].content.output = tool_outcome.value

----------------------------------------------------------------------------
(* Claims about the prompts of a run                                        *)

\* A line of a prompt renders an entry of the memory.
Renders(line, entry) ==
    IF entry.role = "tool"
    THEN line = [label |-> "Tool", name |-> entry.content.name,
                 args |-> entry.content.args, output |-> entry.content.output]
    ELSE line = [label |-> capitalize(entry.role), content |-> entry.content]

\* C31: every prompt passed to the model during a run contains the agent's
\* persona and a rendering of the whole current memory of that run, in order:
\* the initial prompt renders the user message, and each follow-up prompt
\* renders every entry up to and including the tool entry just appended, so no
\* model invocation sees a memory that is missing an entry.
C31_PromptRendersWholeMemory ==
    agent_pc = "generate" =>
        /\ prompt.persona = Self.persona
        /\ Len(prompt.body) = Len(temporary_memory)
        /\ \A i \in 1..Len(temporary_memory) :
               Renders(prompt.body[i], temporary_memory[i])
        /\ step = 0 =>
               /\ Len(temporary_memory) = 1
               /\ temporary_memory[1].role = "user"
        /\ step > 0 =>
               /\ Len(temporary_memory) = 1 + 2 * step
               /\ temporary_memory[Len(temporary_memory)].role = "tool"

C31_Witness ==
    /\ agent_pc = "generate"
    /\ step = 1
    /\ Len(prompt.body) = 3
    /\ prompt.body[1] = [label |-> "User", content |-> <<Word("Sure")>>]
    /\ prompt.body[3].label = "Tool"
    /\ prompt.persona = "persona of A"

----------------------------------------------------------------------------
(* Claims about whole pool runs                                             *)

\* C32: if an agent's run raises during a pool run (for example on an unknown
\* tool name), Pool.run propagates the error to its caller without calling
\* the router again; the shared-state history then holds the run's user
\* message and one assistant message for each agent that completed before the
\* failure, and no message for the failed agent.
C32_AgentErrorPropagates ==
    \A i \in Events("agent.raise") :
        LET completed == Events("agent.return")
            u == Len(history) - Cardinality(completed)
        IN
        /\ i = Len(trace)
        /\ pool_pc \in {"running", "done"}
        /\ pool_pc = "done" =>
               pool_outcome = [kind |-> "raise", error |-> trace[i].error]
        /\ call_count = Cardinality(completed)
        /\ Cardinality(Events("agent.run")) = Cardinality(completed) + 1
        /\ Cardinality(Events("router")) = Cardinality(completed) + 1
        /\ u >= 1
        /\ history[u] = UserMessage
        /\ SubSeq(history, 1, u - 1) \in InitialHistories
        /\ \A k \in 1..Cardinality(completed) :
               /\ history[u + k].role = "assistant"
               /\ history[u + k].content = str(trace[Nth(completed, k)].value)
               /\ history[u + k].agent = PyStr(trace[Nth(Events("agent.run"), k)].agent)

C32_Witness ==
    /\ pool_pc = "done"
    /\ pool_outcome = [kind |-> "raise", error |-> "ValueError: tool not found"]
    /\ call_count = 1
    /\ Len(history) = 4
    /\ history[3] = UserMessage
    /\ history[4].role = "assistant"
    /\ trace[Len(trace)].e = "agent.raise"

----------------------------------------------------------------------------
(* Claims about the length of a run                                         *)

\* The run is over: Agent.run has returned or raised.
Terminated == agent_pc \in {"returned", "raised"}

\* Under limit_steps(n) a run makes at most n + 1 model invocations and at
\* most n + 1 tool executions.
StepsWithinLimit ==
    Self.stop.kind = "limit_steps" =>
        /\ step <= Self.stop.max_steps + 1
        /\ Cardinality(Events("generate")) <= Self.stop.max_steps + 1
        /\ Cardinality(Events("callable")) <= Self.stop.max_steps + 1
        /\ \A i \in Events("should_stop") :
               trace[i].result = (trace[i].step >= Self.stop.max_steps)

\* Under a stop condition that never fires a run ends only on a response that
\* is no request of a registered tool, or on a tool that did not return.
EndsOnlyOnAnswerOrError ==
    Self.stop = never_stops =>
        /\ \A i \in Events("should_stop") : ~trace[i].result
        /\ step = Cardinality(Events("generate"))
        /\ Terminated =>
               \/ Parsed[response] = PyNone
               \/ ~Registered(Self, Parsed[response].v.tool)
               \/ tool_outcome.kind = "raise"
        /\ (~Terminated /\ agent_pc = "generate") =>
               Cardinality(Role("tool")) = step

\* C33: with a stop condition that returns true whenever the step value it
\* receives is >= N (N >= 0), a model that always answers and tools that
\* always return, every Agent.run terminates after at most N+1 model
\* invocations and at most N+1 tool executions, whatever the model answers;
\* with a stop condition that never fires and a model that always requests a
\* registered tool, the run never terminates.
C33_StopConditionBoundsTheRun ==
    /\ []StepsWithinLimit
    /\ []EndsOnlyOnAnswerOrError
    /\ (Self.stop.kind = "limit_steps") ~> Terminated

C33_Witness ==
    /\ agent = "A"
    /\ agent_pc = "returned"
    /\ agent_outcome.value = StoppedText(2)
    /\ Cardinality(Events("generate")) = 2
    /\ Cardinality(Events("callable")) = 2

\* The run that never stops, after as many turns as are followed.
C33_LoopsOn ==
    /\ agent = "N"
    /\ step = MaxSteps
    /\ agent_pc = "generate"
    /\ Cardinality(Events("callable")) = MaxSteps

----------------------------------------------------------------------------
(* Claims about successive pool runs                                        *)

\* The positions of the history holding an assistant message.
AssistantMessages == {k \in 1..Len(history) : history[k].role = "assistant"}

\* A run that is over returns the newest assistant message of the history,
\* whichever run or whoever else left it, and "" when there is none.
ReturnsNewestOfAnyRun ==
    (pool_pc = "done" /\ pool_outcome.kind = "return") =>
        /\ AssistantMessages = {} => pool_outcome.value = <<>>
        /\ AssistantMessages # {} =>
               pool_outcome.value = history[Last(AssistantMessages)].content
        /\ call_count = 0 =>
               /\ history[Len(history)] = UserMessage
               /\ pool_outcome.value = final_result(SubSeq(history, 1, Len(history) - 1))

\* A later run begins on the history the earlier one left and extends it.
RunExtendsHistory ==
    /\ (pool_pc = "done" /\ pool_pc' = "start") => (history' = history /\ kv' = kv)
    /\ (pool_pc = "start" /\ pool_pc' = "loop") => history' = history \o <<UserMessage>>
    /\ Len(history') >= Len(history)
    /\ SubSeq(history', 1, Len(history)) = history

\* C34: shared state persists across successive Pool.run calls on the same
\* Pool (and across an injected pre-loaded State): a later run's history
\* extends the earlier history instead of starting empty, and a run in which
\* no agent is invoked returns the content of the most recent assistant
\* message left by an earlier run or by the injected state, returning an empty
\* result only if the history holds no assistant message at all.
C34_StatePersistsAcrossRuns ==
    /\ []ReturnsNewestOfAnyRun
    /\ [][RunExtendsHistory]_vars

C34_Witness ==
    /\ pool_pc = "done"
    /\ RunsStarted = 2
    /\ call_count = 0
    /\ history = <<UserMessage,
                   [role |-> "assistant", content |-> <<Word("Sure")>>,
                    agent |-> PyStr("B")],
                   UserMessage>>
    /\ pool_outcome = [kind |-> "return", value |-> <<Word("Sure")>>]

----------------------------------------------------------------------------
(* Claims about the provided router and the state it is given               *)

\* The smaller of two numbers.
Min(a, b) == IF a <= b THEN a ELSE b

\* The pool routes round-robin over a list of registered names.
RoundRobinOverRegistered ==
    /\ router.kind = "round_robin"
    /\ \A j \in 1..Len(router.names) : router.names[j] \in DOMAIN agents_dict

AnswersByCountOnly ==
    router.kind = "round_robin" =>
        \A i \in Events("router") :
            trace[i].route = round_robin_router(router.names, trace[i].call_count)

\* No step of a run writes the store, and asking the router leaves the
\* history as it is.
StoreUntouched ==
    /\ kv' = kv
    /\ pool_pc = "loop" => history' = history

\* C36: the pool loop and the round-robin router leave the shared key-value
\* store untouched: round_robin_router's result depends only on call_count
\* and the name list and it modifies neither kv nor history, and Pool.run
\* itself never calls set, so with a router that does not write state, kv is
\* identical before and after any pool run.
C36_StoreUntouchedByPool ==
    /\ []AnswersByCountOnly
    /\ [][StoreUntouched]_vars

C36_Witness ==
    /\ pool_pc = "done"
    /\ pool_outcome.kind = "return"
    /\ router = [kind |-> "round_robin", names |-> <<"A", "B">>]
    /\ RunsStarted = 2
    /\ call_count = 1
    /\ kv = [topic |-> PyStr("hi")]
    /\ Len(history) = 6

----------------------------------------------------------------------------
(* Claims about a conformant call of a tool                                 *)

\* The one invocation of the callable, with the mapping Tool.run was given.
CalledOnceAsGiven(raised) ==
    trace = <<[e |-> "callable", tool |-> tool.name, args |-> tool_args,
               raised |-> raised]>>

\* A call whose mapping meets the input spec reaches the callable, which is
\* invoked once with the mapping as it is; what it returns is the result.
ConformantCallReachesCallable ==
    ~ViolatesContract(tool, tool_args) =>
        /\ tool_pc \in {"validate", "call"} => trace = <<>>
        /\ tool_pc = "returned" =>
               /\ CalledOnceAsGiven(FALSE)
               /\ tool_outcome.kind = "return"
               /\ tool_outcome.value \in CallableResults
        /\ tool_pc = "raised" =>
               /\ CalledOnceAsGiven(TRUE)
               /\ tool_outcome = [kind |-> "raise",
                                  error |-> "RuntimeError: callable failed"]

\* C37: when every declared parameter is present and type-conformant and the
\* callable returns, Tool.run invokes the callable exactly once with the
\* argument mapping as given (keys not declared in the input spec included)
\* and returns the callable's result unchanged; the tool's configuration is
\* the same before and after the call.
C37_ConformantCall ==
    /\ []ConformantCallReachesCallable
    /\ [][tool' = tool /\ tool_args' = tool_args /\ tool_options' = tool_options]_vars

C37_Witness ==
    /\ tool_pc = "returned"
    /\ tool.input_parameters = << <<"text", "str">> >>
    /\ tool_args = PyDict([text |-> PyStr("hi"), extra |-> PyInt(3)])
    /\ trace[1].args = tool_args
    /\ tool_outcome = [kind |-> "return", value |-> PyStr("out")]

----------------------------------------------------------------------------
(* Claims about GroqModel                                                   *)

\* The status of the response decides how generate ends: the message content
\* on 200, a runtime error on any other status.
StatusDecidesOutcome ==
    (groq_pc = "ready" /\ http_response # PyNone) =>
        /\ http_response.status_code # 200 =>
               groq_outcome = [kind |-> "raise", error |-> "RuntimeError: Groq API error"]
        /\ (http_response.status_code = 200
               /\ http_response.body = [choices |-> <<[message |-> [content |-> "Sure"]]>>])
               => groq_outcome = [kind |-> "return", value |-> "Sure"]

\* Every request so far went to the endpoint the model was constructed with.
PostedToOwnEndpoint ==
    \A i \in Events("post") : trace[i].url = endpoint_url

\* C38: a GroqModel constructed with an explicit endpoint_url sends every
\* generate request to that URL, and one constructed without it sends every
\* request to the default endpoint; generate returns the message content on a
\* 200 response and raises a runtime error on any other status.
C38_RequestsGoToOwnEndpoint ==
    /\ PostedToOwnEndpoint
    /\ StatusDecidesOutcome

====
